---------------------------- MODULE Spec2Model ----------------------------
(***************************************************************************)
(* Resource lifecycle and cleanup coordination of tempest/lis/manager.py:  *)
(* the cleanup registry (addCleanup), the async-delete wait queue          *)
(* (cleanup_waits), delete_wrapper, the resource factories and the subnet  *)
(* allocation loop of one scenario test instance.                          *)
(***************************************************************************)
EXTENDS Integers, Sequences, FiniteSets, TLC

\* ------------------------------------------------------------------ bounds
\* registrations the test body makes in the registry specification
MaxReg == 3
\* failures the remote services inject at teardown
MaxFaults == 2
\* direct delete_wrapper calls and direct deletions made by the test body
MaxDirect == 2
\* factory calls the test body makes in the factory specification
MaxCalls == 2
\* candidate blocks tenant_cidr.subnet(num_bits) yields
MaxPool == 5

VARIABLES
    pc,             \* position of the test instance: new, body, cleanups, waits, done
    cleanups,       \* the deferred-action list addCleanup appends to
    cleanup_waits,  \* self.cleanup_waits, the list of wait dicts
    wait_i,         \* position of the for loop in _wait_for_cleanups
    log,            \* every call made on a client, waiter or registered callable
    errors,         \* the errors teardown reported
    body_failed,    \* the test body raised
    exists,         \* ids of the resources that exist on the remote services
    next_id,        \* next resource id the remote services hand out
    registered,     \* history: cleanup entries in order of registration
    wait_registered,\* history: resource ids in order of wait registration
    faults,         \* failures injected so far
    direct,         \* direct calls made by the test body so far
    dw,             \* history: every delete_wrapper call, what its delete answered
                    \* and what the wrapper raised
    calls,          \* history: factory calls of the test body
    sn,             \* the frame of a running _create_subnet call
    sg,             \* the frame of a running _create_loginable_secgroup_rule call
    test,           \* the number of the test that is running
    poll            \* the frame of a running polling helper or bare-metal sequence

vars == <<pc, cleanups, cleanup_waits, wait_i, log, errors, body_failed, exists,
          next_id, registered, wait_registered, faults, direct, dw, calls, sn, sg, test, poll>>

\* ----------------------------------------------------------------- helpers
Reverse(s) == [i \in 1..Len(s) |-> s[Len(s) + 1 - i]]

Last(s) == s[Len(s)]

Front(s) == SubSeq(s, 1, Len(s) - 1)

IsPrefix(s, t) == Len(s) <= Len(t) /\ s = SubSeq(t, 1, Len(s))

Range(s) == {s[i] : i \in 1..Len(s)}

\* the error kinds a delete operation other than NotFound can fail with
OtherErrors == {"Conflict", "Timeout"}

\* a cleanup entry: the callable handed to addCleanup and its arguments; op is
\* the delete_thing argument when the callable is delete_wrapper
Entry(fn, op, id) == [fn |-> fn, op |-> op, id |-> id]

\* a recorded call: name of the callable, the id it is called for, who called
\* it (body, cleanup, waitq), the keyword arguments it received and what it
\* answered (ok or the error kind it raised)
Call(name, id, src, kwargs, res) == [name |-> name, id |-> id, src |-> src, kwargs |-> kwargs, res |-> res]

NoKwargs == [k \in {} |-> 0]

\* the callable an entry ends up calling
EntryCall(e) == IF e.fn = "delete_wrapper" THEN e.op ELSE e.fn


\* ---------------------------------------------------- the remote services
\* callables that delete a resource on a remote service
DeleteOps == {"delete_thing", "delete_server", "delete_volume", "delete_snapshot",
              "delete_image", "delete_keypair", "delete_volume_type",
              "delete_security_group", "delete_floating_ip", "delete_container",
              "delete_object", "network.delete", "subnet.delete", "router.delete",
              "port.delete", "secgroup.delete", "floating_ip.delete"}

\* callables that block until a resource is gone
Waiters == {"waiter", "wait_for_server_termination", "wait_for_resource_deletion"}

\* what a call of `name` for resource `id` can answer: a delete of a missing
\* resource answers NotFound; any call can fail while failures are left
Outcomes(name, id) ==
    IF name \in DeleteOps
    THEN IF id \notin exists THEN {"NotFound"}
         ELSE {"ok"} \cup (IF faults < MaxFaults THEN OtherErrors ELSE {})
    ELSE IF name \in Waiters
    THEN {"ok"} \cup (IF faults < MaxFaults THEN {"Timeout"} ELSE {})
    ELSE {"ok"} \cup (IF faults < MaxFaults THEN {"Error"} ELSE {})

\* the remote state after the call
ExistsAfter(name, id, outcome) ==
    IF name \in DeleteOps /\ outcome = "ok" THEN exists \ {id} ELSE exists

FaultsAfter(outcome) ==
    IF outcome \in {"ok", "NotFound"} THEN faults ELSE faults + 1

\* ------------------------------------------------- the cleanup registry
\* the entry setUp registers for the drain of the wait queue
DrainEntry == Entry("_wait_for_cleanups", "none", 0)

\* addCleanup(function, *args): appends to the deferred-action list
addCleanup(reg, e) == Append(reg, e)

\* delete_wrapper without its except clause
delete_wrapper_NoExcept(delete_thing, id, outcome) ==
    [calls |-> <<[name |-> delete_thing, id |-> id]>>, raised |-> outcome]

\* delete_wrapper with a bare except clause
delete_wrapper_SwallowAll(delete_thing, id, outcome) ==
    [calls |-> <<[name |-> delete_thing, id |-> id]>>, raised |-> "ok"]

\* delete_wrapper(delete_thing, *args): calls delete_thing(*args) and ignores
\* NotFound; `outcome` is what the call answers, `raised` what propagates
delete_wrapper(delete_thing, id, outcome) ==
    [calls |-> <<[name |-> delete_thing, id |-> id]>>,
     raised |-> IF outcome = "NotFound" THEN "ok" ELSE outcome]

\* a wait dict that carries the client key whether or not one was given
wait_dict_AlwaysClient(waiter_callable, thing_id, thing_id_param, waiter_client) ==
    [k \in {"waiter_callable", thing_id_param, "client"} |->
        IF k = "client" THEN waiter_client
        ELSE IF k = thing_id_param THEN thing_id
        ELSE waiter_callable]

\* the wait_dict addCleanup_with_wait builds
wait_dict(waiter_callable, thing_id, thing_id_param, waiter_client) ==
    [k \in {"waiter_callable", thing_id_param}
           \cup (IF waiter_client # "None" THEN {"client"} ELSE {}) |->
        IF k = "client" /\ waiter_client # "None" THEN waiter_client
        ELSE IF k = thing_id_param THEN thing_id
        ELSE waiter_callable]

\* addCleanup_with_wait that registers the drain of the wait queue with each
\* registration instead of leaving it to setUp
addCleanup_with_wait_Drain(reg, waits, waiter_callable, thing_id, thing_id_param, cleanup_callable, cleanup_args, waiter_client) ==
    [cleanups |-> addCleanup(addCleanup(reg, Entry(cleanup_callable, cleanup_args[1],
                                                   cleanup_args[2])), DrainEntry),
     cleanup_waits |-> Append(waits, wait_dict(waiter_callable, thing_id,
                                               thing_id_param, waiter_client))]

\* addCleanup_with_wait that puts the cleanup in front of the registry
addCleanup_with_wait_Front(reg, waits, waiter_callable, thing_id, thing_id_param, cleanup_callable, cleanup_args, waiter_client) ==
    [cleanups |-> <<Entry(cleanup_callable, cleanup_args[1], cleanup_args[2])>> \o reg,
     cleanup_waits |-> Append(waits, wait_dict(waiter_callable, thing_id,
                                               thing_id_param, waiter_client))]

\* addCleanup_with_wait that starts the wait queue afresh
addCleanup_with_wait_Reset(reg, waits, waiter_callable, thing_id, thing_id_param, cleanup_callable, cleanup_args, waiter_client) ==
    [cleanups |-> addCleanup(reg, Entry(cleanup_callable, cleanup_args[1],
                                        cleanup_args[2])),
     cleanup_waits |-> <<wait_dict(waiter_callable, thing_id, thing_id_param,
                                   waiter_client)>>]

\* addCleanup_with_wait: one entry in the registry, one in the wait queue
addCleanup_with_wait(reg, waits, waiter_callable, thing_id, thing_id_param, cleanup_callable, cleanup_args, waiter_client) ==
    [cleanups |-> addCleanup(reg, Entry(cleanup_callable, cleanup_args[1],
                                        cleanup_args[2])),
     cleanup_waits |-> Append(waits, wait_dict(waiter_callable, thing_id,
                                               thing_id_param, waiter_client))]

\* the keyword arguments left in a wait dict once waiter_callable is popped
PopWaiter(w) == [k \in DOMAIN w \ {"waiter_callable"} |-> w[k]]

\* the resource id among the keyword arguments of a waiter
WaitId(kwargs) ==
    IF DOMAIN kwargs \ {"client"} = {} THEN 0
    ELSE kwargs[CHOOSE k \in DOMAIN kwargs \ {"client"} : TRUE]

\* the order in which _wait_for_cleanups visits the wait queue
WaitOrder_Reversed(n) == [i \in 1..n |-> n + 1 - i]

WaitOrder(n) == [i \in 1..n |-> i]


\* ------------------------------------------------------------ the test run
\* no _create_subnet call is running; result 0 stands for None
IdleSubnet == [pc |-> "idle", pool |-> 0, i |-> 0, lookups |-> <<>>, used |-> <<>>,
               creates |-> <<>>, answers |-> <<>>, result |-> 0]

\* no _create_loginable_secgroup_rule call is running
IdleRules == [pc |-> "idle", j |-> 0, answers |-> <<>>, rules |-> <<>>]

\* no polling helper is running
IdlePoll ==
    [pc |-> "idle", op |-> "none", step |-> 0, helper |-> "none", should_succeed |-> TRUE,
     attr |-> "none", target |-> "none", targets |-> {}, timeout |-> 0, elapsed |-> 0,
     seen |-> <<>>, status |-> "none", cut |-> "none", result |-> "none", passed |-> <<>>]

Init ==
    /\ pc = "new"
    /\ cleanups = <<>>
    /\ cleanup_waits = <<>>
    /\ wait_i = 0
    /\ log = <<>>
    /\ errors = <<>>
    /\ body_failed = FALSE
    /\ exists = {}
    /\ next_id = 1
    /\ registered = <<>>
    /\ wait_registered = <<>>
    /\ faults = 0
    /\ direct = 0
    /\ dw = <<>>
    /\ calls = <<>>
    /\ sn = IdleSubnet
    /\ sg = IdleRules
    /\ test = 1
    /\ poll = IdlePoll

\* setUp that forgets to register the drain of the wait queue
SetUp_NoDrain ==
    /\ pc = "new"
    /\ cleanup_waits' = <<>>
    /\ pc' = "body"
    /\ UNCHANGED <<cleanups, wait_i, log, errors, body_failed, exists, next_id,
                   registered, wait_registered, faults, direct, dw, calls, sn, sg, test, poll>>

\* setUp that goes on with the wait queue it finds
SetUp_KeepWaits ==
    /\ pc = "new"
    /\ cleanups' = addCleanup(cleanups, DrainEntry)
    /\ registered' = Append(registered, DrainEntry)
    /\ pc' = "body"
    /\ UNCHANGED <<cleanup_waits, wait_i, log, errors, body_failed, exists, next_id,
                   wait_registered, faults, direct, dw, calls, sn, sg, test, poll>>

\* setUp that registers the drain of the wait queue twice
SetUp_TwoDrains ==
    /\ pc = "new"
    /\ cleanup_waits' = <<>>
    /\ cleanups' = addCleanup(addCleanup(cleanups, DrainEntry), DrainEntry)
    /\ registered' = Append(Append(registered, DrainEntry), DrainEntry)
    /\ pc' = "body"
    /\ UNCHANGED <<wait_i, log, errors, body_failed, exists, next_id,
                   wait_registered, faults, direct, dw, calls, sn, sg, test, poll>>

\* ScenarioTest.setUp: a fresh wait queue, and its drain registered as the
\* first cleanup of the test
SetUp ==
    /\ pc = "new"
    /\ cleanup_waits' = <<>>
    /\ cleanups' = addCleanup(cleanups, DrainEntry)
    /\ registered' = Append(registered, DrainEntry)
    /\ pc' = "body"
    /\ UNCHANGED <<wait_i, log, errors, body_failed, exists, next_id,
                   wait_registered, faults, direct, dw, calls, sn, sg, test, poll>>

\* the test body registers a callable of its own: self.addCleanup(callable)
RegisterPlain ==
    /\ pc = "body"
    /\ Len(registered) <= MaxReg
    /\ LET e == Entry("callable", "none", next_id)
       IN /\ cleanups' = addCleanup(cleanups, e)
          /\ registered' = Append(registered, e)
    /\ next_id' = next_id + 1
    /\ UNCHANGED <<pc, cleanup_waits, wait_i, log, errors, body_failed, exists,
                   wait_registered, faults, direct, dw, calls, sn, sg, test, poll>>

\* a resource is created and its deletion registered:
\* self.addCleanup(self.delete_wrapper, delete_thing, id)
RegisterDelete ==
    /\ pc = "body"
    /\ Len(registered) <= MaxReg
    /\ LET e == Entry("delete_wrapper", "delete_thing", next_id)
       IN /\ cleanups' = addCleanup(cleanups, e)
          /\ registered' = Append(registered, e)
    /\ exists' = exists \cup {next_id}
    /\ next_id' = next_id + 1
    /\ UNCHANGED <<pc, cleanup_waits, wait_i, log, errors, body_failed,
                   wait_registered, faults, direct, dw, calls, sn, sg, test, poll>>

\* the (thing_id_param, waiter_client) pairs the module registers waits with:
\* create_server passes server_id and a client, create_server_snapshot id and none
WaitArgs == {<<"server_id", "servers_client">>, <<"id", "None">>}

\* a resource is created and its deletion registered with a wait:
\* self.addCleanup_with_wait(waiter, id, param, self.delete_wrapper, [delete_thing, id])
RegisterWithWait ==
    /\ pc = "body"
    /\ Len(registered) <= MaxReg
    /\ \E a \in WaitArgs :
         LET param == a[1]
             client == a[2]
             r == addCleanup_with_wait(cleanups, cleanup_waits, "waiter", next_id, param,
                                       "delete_wrapper", <<"delete_thing", next_id>>, client)
         IN /\ cleanups' = r.cleanups
            /\ cleanup_waits' = r.cleanup_waits
    /\ registered' = Append(registered, Entry("delete_wrapper", "delete_thing", next_id))
    /\ wait_registered' = Append(wait_registered, next_id)
    /\ exists' = exists \cup {next_id}
    /\ next_id' = next_id + 1
    /\ UNCHANGED <<pc, wait_i, log, errors, body_failed, faults, direct, dw, calls, sn, sg, test, poll>>

\* ids of the resources whose deletion is registered
ResourceIds == {e.id : e \in {x \in Range(registered) : x.fn = "delete_wrapper"}}

\* the test body deletes a resource itself, as delete_container does
BodyDelete ==
    /\ pc = "body"
    /\ direct < MaxDirect
    /\ \E id \in exists \cap ResourceIds :
         /\ exists' = exists \ {id}
         /\ log' = Append(log, Call("delete_thing", id, "body", NoKwargs, "ok"))
    /\ direct' = direct + 1
    /\ UNCHANGED <<pc, cleanups, cleanup_waits, wait_i, errors, body_failed, next_id,
                   registered, wait_registered, faults, dw, calls, sn, sg, test, poll>>

\* the calls of a delete_wrapper result as log records
WrapperCalls(r, src, outcome) == [i \in 1..Len(r.calls) |-> Call(r.calls[i].name, r.calls[i].id, src, NoKwargs, outcome)]

\* a delete_wrapper call as the history keeps it
WrapperRecord(delete_thing, id, outcome, r, src) ==
    [op |-> delete_thing, id |-> id, outcome |-> outcome, raised |-> r.raised,
     calls |-> r.calls, src |-> src, gone |-> id \notin exists]

\* the test body calls self.delete_wrapper(delete_thing, id); what it raises
\* fails the test body
BodyDeleteWrapper ==
    /\ pc = "body"
    /\ direct < MaxDirect
    /\ \E id \in ResourceIds :
         \E outcome \in Outcomes("delete_thing", id) :
           LET r == delete_wrapper("delete_thing", id, outcome)
           IN /\ log' = log \o WrapperCalls(r, "body", outcome)
              /\ dw' = Append(dw, WrapperRecord("delete_thing", id, outcome, r, "body"))
              /\ exists' = ExistsAfter("delete_thing", id, outcome)
              /\ faults' = FaultsAfter(outcome)
              /\ body_failed' = (r.raised # "ok")
              /\ pc' = IF r.raised # "ok" THEN "cleanups" ELSE "body"
    /\ direct' = direct + 1
    /\ UNCHANGED <<cleanups, cleanup_waits, wait_i, errors, next_id, registered,
                   wait_registered, calls, sn, sg, test, poll>>

\* the test body ends, passing or failing; teardown starts either way
EndBody ==
    /\ pc = "body"
    /\ sn.pc = "idle"
    /\ sg.pc = "idle"
    /\ \E failed \in BOOLEAN : body_failed' = failed
    /\ pc' = "cleanups"
    /\ UNCHANGED <<cleanups, cleanup_waits, wait_i, log, errors, exists, next_id,
                   registered, wait_registered, faults, direct, dw, calls, sn, sg, test, poll>>


\* ---------------------------------------------------------------- teardown
\* an error as teardown reports it: the entry that raised and the error kind
Failure(e, kind) == [entry |-> e, kind |-> kind]

\* the deferred-action facility runs the newest entry left, records what it
\* raises and goes on with the next one
DoCleanups ==
    /\ pc = "cleanups"
    /\ cleanups # <<>>
    /\ LET e == Last(cleanups)
       IN /\ cleanups' = Front(cleanups)
          /\ IF e.fn = "_wait_for_cleanups"
             THEN /\ log' = Append(log, Call("_wait_for_cleanups", 0, "cleanup", NoKwargs, "ok"))
                  /\ pc' = "waits"
                  /\ wait_i' = 1
                  /\ UNCHANGED <<errors, exists, faults, dw>>
             ELSE IF e.fn = "delete_wrapper"
             THEN \E outcome \in Outcomes(e.op, e.id) :
                    LET r == delete_wrapper(e.op, e.id, outcome)
                    IN /\ log' = log \o WrapperCalls(r, "cleanup", outcome)
                       /\ errors' = IF r.raised # "ok"
                                    THEN Append(errors, Failure(e, r.raised))
                                    ELSE errors
                       /\ exists' = ExistsAfter(e.op, e.id, outcome)
                       /\ faults' = FaultsAfter(outcome)
                       /\ dw' = Append(dw, WrapperRecord(e.op, e.id, outcome, r, "cleanup"))
                       /\ UNCHANGED <<pc, wait_i>>
             ELSE \E outcome \in Outcomes(e.fn, e.id) :
                    /\ log' = Append(log, Call(e.fn, e.id, "cleanup", NoKwargs, outcome))
                    /\ errors' = IF outcome # "ok"
                                 THEN Append(errors, Failure(e, outcome))
                                 ELSE errors
                    /\ exists' = ExistsAfter(e.fn, e.id, outcome)
                    /\ faults' = FaultsAfter(outcome)
                    /\ UNCHANGED <<pc, wait_i, dw>>
    /\ UNCHANGED <<cleanup_waits, body_failed, next_id, registered, wait_registered,
                   direct, calls, sn, sg, test, poll>>

WaiterRaises_Swallowed(outcome) == FALSE

\* waiter_callable(**wait) is called outside any try: what it raises leaves
\* _wait_for_cleanups
WaiterRaises(outcome) == outcome # "ok"

\* one iteration of the for loop of _wait_for_cleanups: pop waiter_callable
\* from the wait dict and call it with what is left; what the waiter raises
\* leaves the loop and is reported as the error of the drain entry
WaitStep ==
    /\ pc = "waits"
    /\ wait_i <= Len(cleanup_waits)
    /\ LET idx == WaitOrder(Len(cleanup_waits))[wait_i]
           w == cleanup_waits[idx]
       IN IF "waiter_callable" \notin DOMAIN w
          THEN /\ errors' = Append(errors, Failure(DrainEntry, "KeyError"))
               /\ pc' = "cleanups"
               /\ UNCHANGED <<cleanup_waits, wait_i, log, faults>>
          ELSE LET kwargs == PopWaiter(w)
               IN /\ cleanup_waits' = [cleanup_waits EXCEPT ![idx] = kwargs]
                  /\ \E outcome \in Outcomes(w["waiter_callable"], WaitId(kwargs)) :
                       /\ log' = Append(log, Call(w["waiter_callable"], WaitId(kwargs),
                                                  "waitq", kwargs, outcome))
                       /\ faults' = FaultsAfter(outcome)
                       /\ IF ~WaiterRaises(outcome)
                          THEN /\ wait_i' = wait_i + 1
                               /\ UNCHANGED <<pc, errors>>
                          ELSE /\ errors' = Append(errors, Failure(DrainEntry, outcome))
                               /\ pc' = "cleanups"
                               /\ UNCHANGED wait_i
    /\ UNCHANGED <<cleanups, body_failed, exists, next_id, registered, wait_registered,
                   direct, dw, calls, sn, sg, test, poll>>

\* the for loop of _wait_for_cleanups has visited every wait dict
WaitReturn ==
    /\ pc = "waits"
    /\ wait_i > Len(cleanup_waits)
    /\ pc' = "cleanups"
    /\ UNCHANGED <<cleanups, cleanup_waits, wait_i, log, errors, body_failed, exists,
                   next_id, registered, wait_registered, faults, direct, dw, calls, sn, sg, test, poll>>

\* the registry is empty: teardown is over
Finish ==
    /\ pc = "cleanups"
    /\ cleanups = <<>>
    /\ pc' = "done"
    /\ UNCHANGED <<cleanups, cleanup_waits, wait_i, log, errors, body_failed, exists,
                   next_id, registered, wait_registered, faults, direct, dw, calls, sn, sg, test, poll>>

Teardown == DoCleanups \/ WaitStep \/ WaitReturn \/ Finish

Next ==
    \/ SetUp
    \/ RegisterPlain
    \/ RegisterDelete
    \/ RegisterWithWait
    \/ BodyDelete
    \/ EndBody
    \/ Teardown

\* the test body registers deletions and calls delete_wrapper itself
NextWrapper ==
    \/ SetUp
    \/ Len(registered) <= MaxDirect /\ RegisterDelete
    \/ Len(registered) <= MaxDirect /\ RegisterWithWait
    \/ BodyDelete
    \/ BodyDeleteWrapper
    \/ EndBody
    \/ Teardown

\* the registry specification: registrations made directly by the test body
Spec == Init /\ [][Next]_vars

\* the wrapper specification: direct calls of delete_wrapper by the test body
SpecWrapper == Init /\ [][NextWrapper]_vars


\* ------------------------------------------------------------- factories
\* A factory is the sequence of its statements that matter to the lifecycle:
\*   <<"create", kind>>          the remote create call, which hands out an id
\*   <<"found", kind>>           a resource the remote made as a side effect
\*   <<"reg_raw", fn>>           self.addCleanup(fn, id)
\*   <<"reg_wrapped", op>>       self.addCleanup(self.delete_wrapper, op, id)
\*   <<"reg_with_wait", waiter, param, op, client>>
\*                               self.addCleanup_with_wait(waiter, id, param,
\*                                   self.delete_wrapper, [op, id], client)
\*   <<"check", label>>          a statement that can raise once the resource
\*                               exists: validation (an assert on the echoed
\*                               fields), readiness (a wait for a status),
\*                               postcheck, call (another remote call)
create_keypair == <<
    <<"create", "keypair">>,
    <<"reg_raw", "delete_keypair">> >>

\* _create_port as create_server calls it for a network when vnic_type is set
create_port_steps == <<
    <<"create", "port">>,
    <<"check", "validation">>,
    <<"reg_wrapped", "port.delete">> >>

\* a create_server that registers the termination wait after the delete
create_server_WaitLast(ports, wait_on_delete) ==
    (IF ports THEN create_port_steps ELSE <<>>)
    \o << <<"create", "server">>,
          <<"reg_with_wait", "wait_for_server_termination", "server_id", "delete_server", "servers_client">> >>
    \o (IF wait_on_delete THEN << <<"reg_raw", "wait_for_server_termination">> >> ELSE <<>>)
    \o << <<"check", "call">> >>

create_server(ports, wait_on_delete) ==
    (IF ports THEN create_port_steps ELSE <<>>)
    \o << <<"create", "server">> >>
    \o (IF wait_on_delete THEN << <<"reg_raw", "wait_for_server_termination">> >> ELSE <<>>)
    \o << <<"reg_with_wait", "wait_for_server_termination", "server_id", "delete_server", "servers_client">>,
          <<"check", "call">> >>

create_volume == <<
    <<"create", "volume">>,
    <<"reg_raw", "wait_for_resource_deletion">>,
    <<"reg_wrapped", "delete_volume">>,
    <<"check", "validation">>,
    <<"check", "readiness">>,
    <<"check", "call">> >>

\* the Nova security group factory of ScenarioTest
nova_create_security_group == <<
    <<"create", "security_group">>,
    <<"check", "validation">>,
    <<"reg_wrapped", "delete_security_group">>,
    <<"check", "call">> >>

image_create == <<
    <<"create", "image">>,
    <<"reg_raw", "delete_image">>,
    <<"check", "validation">>,
    <<"check", "call">> >>

create_server_snapshot(bdm) ==
    << <<"create", "image">>,
       <<"check", "readiness">>,
       <<"reg_with_wait", "wait_for_resource_deletion", "id", "delete_image", "None">>,
       <<"check", "call">> >>
    \o (IF bdm
        THEN << <<"found", "snapshot">>,
                <<"reg_raw", "wait_for_resource_deletion">>,
                <<"reg_wrapped", "delete_snapshot">>,
                <<"check", "readiness">> >>
        ELSE <<>>)
    \o << <<"check", "validation">> >>

nova_create_floating_ip == <<
    <<"create", "floating_ip">>,
    <<"reg_wrapped", "delete_floating_ip">>,
    <<"check", "call">> >>

create_network == <<
    <<"create", "network">>,
    <<"check", "validation">>,
    <<"reg_wrapped", "network.delete">> >>

create_port == create_port_steps

\* the Neutron floating ip factory of NetworkScenarioTest
create_floating_ip == <<
    <<"create", "floating_ip">>,
    <<"reg_wrapped", "floating_ip.delete">> >>

create_empty_security_group == <<
    <<"create", "security_group">>,
    <<"check", "validation">>,
    <<"reg_wrapped", "secgroup.delete">> >>

create_router == <<
    <<"create", "router">>,
    <<"check", "validation">>,
    <<"reg_wrapped", "router.delete">> >>

create_volume_type == <<
    <<"create", "volume_type">>,
    <<"check", "validation">>,
    <<"reg_raw", "delete_volume_type">> >>

\* with no type_id the factory creates the volume type first
create_encryption_type(with_type_id) ==
    (IF with_type_id THEN <<>> ELSE create_volume_type)
    \o << <<"create", "encryption_type">> >>

create_container == <<
    <<"create", "container">>,
    <<"check", "postcheck">>,
    <<"reg_wrapped", "delete_container">> >>

upload_object_to_container == <<
    <<"create", "object">>,
    <<"reg_wrapped", "delete_object">> >>

\* the state a factory call works on
Frame == [cleanups |-> cleanups, cleanup_waits |-> cleanup_waits,
          registered |-> registered, wait_registered |-> wait_registered,
          exists |-> exists, next_id |-> next_id, made |-> <<>>, cur |-> 0]

RegWrapped_Front(delete_thing, fr) ==
    [fr EXCEPT !.cleanups = <<Entry("delete_wrapper", delete_thing, fr.cur)>> \o @,
               !.registered = Append(@, Entry("delete_wrapper", delete_thing, fr.cur))]

\* self.addCleanup(self.delete_wrapper, delete_thing, id) in a factory
RegWrapped(delete_thing, fr) ==
    [fr EXCEPT !.cleanups = addCleanup(@, Entry("delete_wrapper", delete_thing, fr.cur)),
               !.registered = Append(@, Entry("delete_wrapper", delete_thing, fr.cur))]

\* one statement of a factory
Step(s, fr) ==
    IF s[1] \in {"create", "found"}
    THEN [fr EXCEPT !.exists = @ \cup {fr.next_id},
                    !.made = Append(@, [kind |-> s[2], id |-> fr.next_id]),
                    !.cur = fr.next_id,
                    !.next_id = @ + 1]
    ELSE IF s[1] = "reg_raw"
    THEN [fr EXCEPT !.cleanups = addCleanup(@, Entry(s[2], "none", fr.cur)),
                    !.registered = Append(@, Entry(s[2], "none", fr.cur))]
    ELSE IF s[1] = "reg_wrapped"
    THEN RegWrapped(s[2], fr)
    ELSE IF s[1] = "reg_with_wait"
    THEN LET r == addCleanup_with_wait(fr.cleanups, fr.cleanup_waits, s[2], fr.cur, s[3],
                                       "delete_wrapper", <<s[4], fr.cur>>, s[5])
         IN [fr EXCEPT !.cleanups = r.cleanups,
                       !.cleanup_waits = r.cleanup_waits,
                       !.registered = Append(@, Entry("delete_wrapper", s[4], fr.cur)),
                       !.wait_registered = Append(@, fr.cur)]
    ELSE fr

\* the first n statements of a factory
RECURSIVE Exec(_, _, _)
Exec(steps, n, fr) == IF n = 0 THEN fr ELSE Step(steps[n], Exec(steps, n - 1, fr))

\* the statements of a factory that can raise
FailPoints(steps) == {i \in 1..Len(steps) : steps[i][1] \in {"create", "check"}}

\* a resource of this kind was made by an earlier factory call of the test
HasMade(kind) ==
    \E i \in 1..Len(calls) : \E j \in 1..Len(calls[i].made) : calls[i].made[j].kind = kind

\* a factory call: its statements run in order; the first one that raises
\* ends the call and fails the test body
RunFactory(name, steps) ==
    /\ pc = "body"
    /\ sn.pc = "idle"
    /\ sg.pc = "idle"
    /\ Len(calls) < MaxCalls
    /\ \E f \in FailPoints(steps) \cup {0} :
         LET fr == Exec(steps, IF f = 0 THEN Len(steps) ELSE f - 1, Frame)
         IN /\ cleanups' = fr.cleanups
            /\ cleanup_waits' = fr.cleanup_waits
            /\ registered' = fr.registered
            /\ wait_registered' = fr.wait_registered
            /\ exists' = fr.exists
            /\ next_id' = fr.next_id
            /\ calls' = Append(calls, [factory |-> name, made |-> fr.made,
                                       fail |-> IF f = 0 THEN "none"
                                                ELSE IF steps[f][1] = "create" THEN "create"
                                                ELSE steps[f][2]])
            /\ body_failed' = (f # 0)
            /\ pc' = IF f # 0 THEN "cleanups" ELSE "body"
    /\ UNCHANGED <<wait_i, log, errors, faults, direct, dw, sn, sg, test, poll>>

CreateKeypair == RunFactory("create_keypair", create_keypair)

CreateServer ==
    \E ports \in BOOLEAN, wait_on_delete \in BOOLEAN :
        RunFactory("create_server", create_server(ports, wait_on_delete))

CreateVolume == RunFactory("create_volume", create_volume)

NovaCreateSecurityGroup == RunFactory("_create_security_group", nova_create_security_group)

ImageCreate == RunFactory("_image_create", image_create)

CreateServerSnapshot ==
    /\ HasMade("server")
    /\ \E bdm \in BOOLEAN :
         RunFactory("create_server_snapshot", create_server_snapshot(bdm))

NovaCreateFloatingIp ==
    /\ HasMade("server")
    /\ RunFactory("create_floating_ip", nova_create_floating_ip)

CreateNetwork == RunFactory("_create_network", create_network)

CreatePort ==
    /\ HasMade("network")
    /\ RunFactory("_create_port", create_port)

CreateFloatingIp ==
    /\ HasMade("server")
    /\ RunFactory("create_floating_ip", create_floating_ip)

CreateEmptySecurityGroup ==
    RunFactory("_create_empty_security_group", create_empty_security_group)

CreateRouter == RunFactory("_create_router", create_router)

CreateVolumeType == RunFactory("create_volume_type", create_volume_type)

CreateEncryptionType ==
    \E with_type_id \in BOOLEAN :
        RunFactory("create_encryption_type", create_encryption_type(with_type_id))

CreateContainer == RunFactory("create_container", create_container)

UploadObjectToContainer ==
    /\ HasMade("container")
    /\ RunFactory("upload_object_to_container", upload_object_to_container)

\* _create_subnet starts: tenant_cidr.subnet(num_bits) yields `pool` candidate
\* blocks, numbered in the order it yields them; result is None
SubnetStart ==
    /\ pc = "body"
    /\ sn.pc = "idle"
    /\ sg.pc = "idle"
    /\ Len(calls) < MaxCalls
    /\ HasMade("network")
    /\ \E pool \in 0..MaxPool :
         sn' = [IdleSubnet EXCEPT !.pc = "loop", !.pool = pool, !.i = 1]
    /\ UNCHANGED <<pc, cleanups, cleanup_waits, wait_i, log, errors, body_failed, exists,
                   next_id, registered, wait_registered, faults, direct, dw, calls, sg, test, poll>>

\* what create_subnet answers: the subnet, a Conflict saying the cidr overlaps
\* with another subnet, or a Conflict saying something else
CreateSubnetAnswers == {"ok", "overlap", "Conflict"}

cidr_in_use_Never(in_use) == FALSE

\* cidr_in_use(str_cidr, tenant_id): a subnet with this cidr is listed
cidr_in_use(in_use) == in_use

is_overlapping_cidr_Any(answer) == TRUE

\* 'overlaps with another subnet' in str(e)
is_overlapping_cidr(answer) == answer = "overlap"

\* the candidate block is looked up, and found in use or not
LookedUp(frame, in_use) ==
    [frame EXCEPT !.lookups = Append(@, frame.i),
                  !.used = IF in_use THEN Append(@, frame.i) ELSE @]

\* create_subnet is called for the candidate block
Created(frame, answer) ==
    [frame EXCEPT !.creates = Append(@, frame.i), !.answers = Append(@, answer)]

SubnetStep_Retry ==
    /\ sn.pc = "loop"
    /\ sn.i <= sn.pool
    /\ \E in_use \in BOOLEAN, answer \in CreateSubnetAnswers :
         IF cidr_in_use(in_use)
         THEN /\ sn' = [LookedUp(sn, in_use) EXCEPT !.i = @ + 1]
              /\ UNCHANGED <<pc, body_failed, exists, next_id, calls>>
         ELSE IF answer = "ok"
         THEN /\ sn' = [Created(LookedUp(sn, in_use), answer) EXCEPT
                            !.pc = "after", !.result = next_id]
              /\ exists' = exists \cup {next_id}
              /\ next_id' = next_id + 1
              /\ UNCHANGED <<pc, body_failed, calls>>
         ELSE IF is_overlapping_cidr(answer)
         THEN /\ sn' = [Created(LookedUp(sn, in_use), answer) EXCEPT
                            !.i = IF Len(sn.creates) < sn.pool + 1 THEN @ ELSE @ + 1]
              /\ UNCHANGED <<pc, body_failed, exists, next_id, calls>>
         ELSE /\ sn' = [Created(LookedUp(sn, in_use), answer) EXCEPT !.pc = "idle"]
              /\ calls' = Append(calls, [factory |-> "_create_subnet", made |-> <<>>,
                                         fail |-> "Conflict"])
              /\ body_failed' = TRUE
              /\ pc' = "cleanups"
              /\ UNCHANGED <<exists, next_id>>
    /\ UNCHANGED <<cleanups, cleanup_waits, wait_i, log, errors, registered,
                   wait_registered, faults, direct, dw, sg, test, poll>>

\* one iteration of the for loop of _create_subnet over the candidate blocks:
\* a block in use is skipped; else create_subnet is called: its result ends
\* the loop, an overlap Conflict goes on to the next block, any other
\* Conflict is raised (the loop's locals keep their last values)
SubnetStep ==
    /\ sn.pc = "loop"
    /\ sn.i <= sn.pool
    /\ \E in_use \in BOOLEAN, answer \in CreateSubnetAnswers :
         IF cidr_in_use(in_use)
         THEN /\ sn' = [LookedUp(sn, in_use) EXCEPT !.i = @ + 1]
              /\ UNCHANGED <<pc, body_failed, exists, next_id, calls>>
         ELSE IF answer = "ok"
         THEN /\ sn' = [Created(LookedUp(sn, in_use), answer) EXCEPT
                            !.pc = "after", !.result = next_id]
              /\ exists' = exists \cup {next_id}
              /\ next_id' = next_id + 1
              /\ UNCHANGED <<pc, body_failed, calls>>
         ELSE IF is_overlapping_cidr(answer)
         THEN /\ sn' = [Created(LookedUp(sn, in_use), answer) EXCEPT !.i = @ + 1]
              /\ UNCHANGED <<pc, body_failed, exists, next_id, calls>>
         ELSE /\ sn' = [Created(LookedUp(sn, in_use), answer) EXCEPT !.pc = "idle"]
              /\ calls' = Append(calls, [factory |-> "_create_subnet", made |-> <<>>,
                                         fail |-> "Conflict"])
              /\ body_failed' = TRUE
              /\ pc' = "cleanups"
              /\ UNCHANGED <<exists, next_id>>
    /\ UNCHANGED <<cleanups, cleanup_waits, wait_i, log, errors, registered,
                   wait_registered, faults, direct, dw, sg, test, poll>>

\* the loop of _create_subnet is over, by break or by running out of blocks
SubnetLoopOver == sn.pc = "after" \/ (sn.pc = "loop" /\ sn.i > sn.pool)

\* the statements after the loop: assertIsNotNone(result, 'Unable to allocate
\* tenant network'), the check of the echoed cidr, then the registration
\* (the loop's locals keep their last values until the next call)
SubnetAfter ==
    /\ SubnetLoopOver
    /\ IF sn.result = 0
       THEN /\ calls' = Append(calls, [factory |-> "_create_subnet", made |-> <<>>,
                                       fail |-> "Unable to allocate tenant network"])
            /\ body_failed' = TRUE
            /\ pc' = "cleanups"
            /\ UNCHANGED <<cleanups, registered>>
       ELSE \E echo_ok \in BOOLEAN :
              LET e == Entry("delete_wrapper", "subnet.delete", sn.result)
                  made == <<[kind |-> "subnet", id |-> sn.result,
                             cidr |-> IF echo_ok THEN sn.i ELSE 0]>>
              IN IF echo_ok
                 THEN /\ cleanups' = addCleanup(cleanups, e)
                      /\ registered' = Append(registered, e)
                      /\ calls' = Append(calls, [factory |-> "_create_subnet",
                                                 made |-> made, fail |-> "none"])
                      /\ UNCHANGED <<pc, body_failed>>
                 ELSE /\ calls' = Append(calls, [factory |-> "_create_subnet",
                                                 made |-> made, fail |-> "validation"])
                      /\ body_failed' = TRUE
                      /\ pc' = "cleanups"
                      /\ UNCHANGED <<cleanups, registered>>
    /\ sn' = [sn EXCEPT !.pc = "idle"]
    /\ UNCHANGED <<cleanup_waits, wait_i, log, errors, exists, next_id, wait_registered,
                   faults, direct, dw, sg, test, poll>>

CreateSubnet == SubnetStart \/ SubnetStep \/ SubnetAfter

Factories ==
    \/ CreateKeypair
    \/ CreateServer
    \/ CreateVolume
    \/ NovaCreateSecurityGroup
    \/ ImageCreate
    \/ CreateServerSnapshot
    \/ NovaCreateFloatingIp
    \/ CreateNetwork
    \/ CreateSubnet
    \/ CreatePort
    \/ CreateFloatingIp
    \/ CreateEmptySecurityGroup
    \/ CreateRouter
    \/ CreateVolumeType
    \/ CreateEncryptionType
    \/ CreateContainer
    \/ UploadObjectToContainer

\* the factory specification injects at most one failure at teardown
InitFactory ==
    /\ pc = "new"
    /\ cleanups = <<>>
    /\ cleanup_waits = <<>>
    /\ wait_i = 0
    /\ log = <<>>
    /\ errors = <<>>
    /\ body_failed = FALSE
    /\ exists = {}
    /\ next_id = 1
    /\ registered = <<>>
    /\ wait_registered = <<>>
    /\ faults = MaxFaults - 1
    /\ direct = 0
    /\ dw = <<>>
    /\ calls = <<>>
    /\ sn = IdleSubnet
    /\ sg = IdleRules
    /\ test = 1
    /\ poll = IdlePoll

NextFactory ==
    \/ SetUp
    \/ Factories
    \/ EndBody
    \/ Teardown

\* the factory specification: the test body creates its resources through
\* the factories
SpecFactory == InitFactory /\ [][NextFactory]_vars

\* a network test that allocates subnets
NextSubnet ==
    \/ SetUp
    \/ CreateNetwork
    \/ CreateSubnet
    \/ EndBody
    \/ DoCleanups
    \/ WaitReturn
    \/ Finish

\* the subnet specification; the test runs on: each call returns or raises
\* within its timeout
SpecSubnet == InitFactory /\ [][NextSubnet]_vars /\ WF_vars(NextSubnet)

\* a test that makes resources inside resources: a subnet in a network, an
\* object in a container
NextNested ==
    \/ SetUp
    \/ CreateNetwork
    \/ CreateSubnet
    \/ CreateContainer
    \/ UploadObjectToContainer
    \/ EndBody
    \/ DoCleanups
    \/ WaitReturn
    \/ Finish

SpecNested == InitFactory /\ [][NextNested]_vars

\* ---------------------------------------------------- one test after another
\* tests a run holds in the lifetime specification
MaxTests == 2

\* the next test of the run starts: a new test instance with a registry of
\* its own; what the last test left in its wait queue is still there, as are
\* the remote resources and the ids handed out so far
NextTest ==
    /\ pc = "done"
    /\ test < MaxTests
    /\ test' = test + 1
    /\ pc' = "new"
    /\ cleanups' = <<>>
    /\ wait_i' = 0
    /\ log' = <<>>
    /\ errors' = <<>>
    /\ body_failed' = FALSE
    /\ registered' = <<>>
    /\ wait_registered' = <<>>
    /\ direct' = 0
    /\ dw' = <<>>
    /\ calls' = <<>>
    /\ UNCHANGED <<cleanup_waits, exists, next_id, faults, sn, sg, poll>>

\* tests that register resources with a wait, run one after another
NextLifetime ==
    \/ SetUp
    \/ (Len(registered) <= MaxDirect /\ RegisterWithWait)
    \/ EndBody
    \/ Teardown
    \/ NextTest

SpecLifetime == Init /\ [][NextLifetime]_vars

\* ------------------------------------------------------- create_networks
\* a _get_router that sets the gateway before _create_router has registered
\* the delete of the router
get_router_GatewayFirst(public_router) ==
    IF public_router
    THEN << <<"check", "call">> >>
    ELSE << <<"create", "router">>, <<"check", "validation">>, <<"check", "call">>,
            <<"reg_wrapped", "router.delete">> >>

\* _get_router: the public router when one is configured, else a new tenant
\* router whose gateway is set to the public network
get_router(public_router) ==
    IF public_router
    THEN << <<"check", "call">> >>
    ELSE create_router \o << <<"check", "call">> >>

\* _create_subnet as create_networks calls it, the loop over the candidate
\* blocks taken as one allocation that succeeds or raises
create_subnet_steps == <<
    <<"create", "subnet">>,
    <<"check", "validation">>,
    <<"reg_wrapped", "subnet.delete">> >>

\* create_networks: with the bare-metal driver the fixed network is looked
\* up; else a network, the router, a subnet, and subnet.add_to_router
create_networks(driver_enabled, public_router) ==
    IF driver_enabled
    THEN << <<"check", "call">> >>
    ELSE create_network \o get_router(public_router) \o create_subnet_steps
         \o << <<"check", "call">> >>

CreateNetworks ==
    \E driver_enabled, public_router \in BOOLEAN :
        RunFactory("create_networks", create_networks(driver_enabled, public_router))

\* a network test that sets its networks up and makes a router of its own
NextNetworks ==
    \/ SetUp
    \/ CreateNetworks
    \/ CreateRouter
    \/ EndBody
    \/ DoCleanups
    \/ WaitReturn
    \/ Finish

SpecNetworks == InitFactory /\ [][NextNetworks]_vars

\* ------------------------------------------- the security group rule loop
\* the rulesets of the Neutron _create_loginable_secgroup_rule: ssh, ping, ping6
rulesets == <<"tcp", "icmp", "icmp6">>

\* the directions each ruleset is created for
directions == <<"ingress", "egress">>

\* the rule creations of one call, in the order of the two nested loops
RuleAttempts ==
    [j \in 1..(Len(rulesets) * Len(directions)) |->
        [ruleset |-> rulesets[((j - 1) \div Len(directions)) + 1],
         direction |-> directions[((j - 1) % Len(directions)) + 1]]]

\* what _create_security_group_rule does: returns the rule, returns a rule
\* that fails an assertEqual, raises the Conflict 'Security group rule
\* already exists', or raises a Conflict saying something else
CreateRuleAnswers == {"ok", "mismatch", "exists", "Conflict"}

rule_already_exists_Any(answer) == TRUE

\* msg in ex._error_string, with msg = 'Security group rule already exists'
rule_already_exists(answer) == answer = "exists"

LoginableStart ==
    /\ pc = "body"
    /\ sn.pc = "idle"
    /\ sg.pc = "idle"
    /\ Len(calls) < MaxCalls
    /\ sg' = [IdleRules EXCEPT !.pc = "loop", !.j = 1]
    /\ UNCHANGED <<pc, cleanups, cleanup_waits, wait_i, log, errors, body_failed, exists,
                   next_id, registered, wait_registered, faults, direct, dw, calls, sn, test, poll>>

\* the rules of a call as resources
RulesMade(rules) == [k \in 1..Len(rules) |-> [kind |-> "security_group_rule", id |-> rules[k].id]]

\* the call is left by an exception
LoginableRaise(answer, made) ==
    /\ sg' = [sg EXCEPT !.pc = "idle", !.answers = Append(@, answer)]
    /\ calls' = Append(calls, [factory |-> "_create_loginable_secgroup_rule",
                               made |-> made,
                               fail |-> IF answer = "mismatch" THEN "validation"
                                        ELSE "Conflict"])
    /\ body_failed' = TRUE
    /\ pc' = "cleanups"

\* one rule creation of the nested loops: the rule is appended to rules, or
\* an assertEqual fails, or the Conflict of a rule that exists is skipped, or
\* any other Conflict is raised
LoginableStep ==
    /\ sg.pc = "loop"
    /\ sg.j <= Len(RuleAttempts)
    /\ \E answer \in CreateRuleAnswers :
         IF answer = "ok"
         THEN /\ sg' = [sg EXCEPT !.j = @ + 1, !.answers = Append(@, answer),
                                  !.rules = Append(@, [attempt |-> sg.j, id |-> next_id])]
              /\ exists' = exists \cup {next_id}
              /\ next_id' = next_id + 1
              /\ UNCHANGED <<pc, body_failed, calls>>
         ELSE IF answer = "mismatch"
         THEN /\ LoginableRaise(answer, Append(RulesMade(sg.rules),
                                    [kind |-> "security_group_rule", id |-> next_id]))
              /\ exists' = exists \cup {next_id}
              /\ next_id' = next_id + 1
         ELSE IF rule_already_exists(answer)
         THEN /\ sg' = [sg EXCEPT !.j = @ + 1, !.answers = Append(@, answer)]
              /\ UNCHANGED <<pc, body_failed, exists, next_id, calls>>
         ELSE /\ LoginableRaise(answer, RulesMade(sg.rules))
              /\ UNCHANGED <<exists, next_id>>
    /\ UNCHANGED <<cleanups, cleanup_waits, wait_i, log, errors, registered,
                   wait_registered, faults, direct, dw, sn, test, poll>>

\* return rules
LoginableReturn ==
    /\ sg.pc = "loop"
    /\ sg.j > Len(RuleAttempts)
    /\ sg' = [sg EXCEPT !.pc = "idle"]
    /\ calls' = Append(calls, [factory |-> "_create_loginable_secgroup_rule",
                               made |-> RulesMade(sg.rules), fail |-> "none"])
    /\ UNCHANGED <<pc, cleanups, cleanup_waits, wait_i, log, errors, body_failed, exists,
                   next_id, registered, wait_registered, faults, direct, dw, sn, test, poll>>

CreateLoginableSecgroupRule == LoginableStart \/ LoginableStep \/ LoginableReturn

\* a network test that opens a security group for login
NextRules ==
    \/ SetUp
    \/ CreateEmptySecurityGroup
    \/ CreateLoginableSecgroupRule
    \/ EndBody
    \/ DoCleanups
    \/ WaitReturn
    \/ Finish

SpecRules == InitFactory /\ [][NextRules]_vars

\* ------------------------------------------------- registry: the properties
IsCleanupCall(c) == c.src = "cleanup"

IsWaitqCall(c) == c.src = "waitq"

CallKey(c) == <<c.name, c.id>>

EntryKey(e) == <<EntryCall(e), e.id>>

\* what teardown invoked from the registry, in order
Invoked == [i \in 1..Len(SelectSeq(log, IsCleanupCall)) |-> CallKey(SelectSeq(log, IsCleanupCall)[i])]

RegisteredKeys == [i \in 1..Len(registered) |-> EntryKey(registered[i])]

\* resource ids the wait queue's waiters were called for, in order
WaitqIds == [i \in 1..Len(SelectSeq(log, IsWaitqCall)) |-> SelectSeq(log, IsWaitqCall)[i].id]

\* the entry was invoked from the registry before position i of the log
InvokedBefore(e, i) ==
    \E j \in 1..(i - 1) : log[j].src = "cleanup" /\ CallKey(log[j]) = EntryKey(e)

\* C1: teardown invokes the registered cleanups newest first: what has been
\* invoked so far is the start of the registrations read backwards, and when
\* teardown is over it is all of them
C1_LifoDrain ==
    /\ IsPrefix(Invoked, Reverse(RegisteredKeys))
    /\ pc = "done" => Invoked = Reverse(RegisteredKeys)

C1_Witness ==
    /\ pc = "done"
    /\ Len(registered) >= 4
    /\ wait_registered # <<>>
    /\ \E i \in 1..Len(registered) : registered[i].fn = "callable"

\* C2: when a waiter of the wait queue is called, every registered cleanup
\* (plain or registered with a wait) has already been invoked
C2_CleanupsBeforeWaits ==
    \A i \in 1..Len(log) :
        log[i].src = "waitq" =>
            \A k \in 1..Len(registered) : InvokedBefore(registered[k], i)

C2_Witness ==
    /\ pc = "done"
    /\ \E i \in 1..Len(log) : log[i].src = "waitq"
    /\ \E i, j \in 1..Len(registered) :
         /\ i < j
         /\ registered[i].id \in Range(wait_registered)
         /\ registered[j].fn = "callable"

\* C3: the waiters of the wait queue are called in order of registration
C3_WaitsFifo == IsPrefix(WaitqIds, wait_registered)

C3_Witness == pc = "done" /\ Len(WaitqIds) >= 2

\* C4: a delete_wrapper call whose delete answers NotFound returns normally
C4_NotFoundSwallowed ==
    \A i \in 1..Len(dw) : dw[i].outcome = "NotFound" => dw[i].raised = "ok"

\* delete_wrapper was called twice for a resource that was already gone
C4_Witness ==
    \E i, j \in 1..Len(dw) :
        /\ i < j
        /\ dw[i].id = dw[j].id
        /\ dw[i].gone /\ dw[j].gone
        /\ dw[i].outcome = "NotFound" /\ dw[j].outcome = "NotFound"
        /\ dw[j].raised = "ok"

\* C5: delete_wrapper calls the delete operation once, with its arguments,
\* and an error other than NotFound reaches the caller: the test body fails
\* with it, or teardown reports it for the entry
C5_OtherErrorsPropagate ==
    \A i \in 1..Len(dw) :
        /\ dw[i].calls = <<[name |-> dw[i].op, id |-> dw[i].id]>>
        /\ dw[i].outcome \in OtherErrors =>
             /\ dw[i].raised = dw[i].outcome
             /\ dw[i].src = "body" => body_failed
             /\ dw[i].src = "cleanup" =>
                  \E m \in 1..Len(errors) :
                      errors[m].entry.id = dw[i].id /\ errors[m].kind = dw[i].outcome

C5_Witness ==
    /\ \E i \in 1..Len(dw) : dw[i].src = "body" /\ dw[i].raised = "Conflict"
    /\ \E i \in 1..Len(dw) : dw[i].src = "cleanup" /\ dw[i].raised = "Timeout"

\* a call made at teardown raised
Raised(c) == c.src \in {"cleanup", "waitq"} /\ c.res \notin {"ok", "NotFound"}

\* C8: when teardown is over every registered entry has been run, the drain
\* of the wait queue last, whatever raised on the way, and each error raised
\* is among the errors teardown reports
C8_TeardownComplete ==
    pc = "done" =>
        /\ \A k \in 1..Len(registered) : InvokedBefore(registered[k], Len(log) + 1)
        /\ Len(Invoked) = Len(registered)
        /\ Invoked # <<>> /\ Last(Invoked) = EntryKey(DrainEntry)
        /\ \A j \in 1..Len(log) :
             Raised(log[j]) =>
                 \E m \in 1..Len(errors) :
                     /\ errors[m].kind = log[j].res
                     /\ errors[m].entry.id = IF log[j].src = "waitq" THEN 0 ELSE log[j].id

\* an entry raised and at least two entries and a waiter ran after it
C8_Witness ==
    /\ pc = "done"
    /\ \E j \in 1..Len(log) :
         /\ log[j].src = "cleanup" /\ log[j].res \in OtherErrors \cup {"Error"}
         /\ Len(log) >= j + 3
         /\ \E w \in (j + 1)..Len(log) : log[w].src = "waitq"


\* ------------------------------------------------ factories: the properties
StrictlyIncreasing(q) == \A a, b \in 1..Len(q) : a < b => q[a] < q[b]

\* each candidate block is looked up at most once and create_subnet is called
\* at most once for it, and only blocks of the pool are visited
SubnetVisitsOnce ==
    /\ StrictlyIncreasing(sn.lookups)
    /\ StrictlyIncreasing(sn.creates)
    /\ Range(sn.creates) \subseteq Range(sn.lookups)
    /\ Range(sn.lookups) \subseteq 1..sn.pool
    /\ sn.pc = "loop" => sn.i \in 1..(sn.pool + 1)

\* every candidate was in use or rejected with an overlap
SubnetExhausted == sn.pc = "loop" /\ sn.i > sn.pool

\* leaving the exhausted loop fails the call with 'Unable to allocate tenant
\* network' and registers nothing
SubnetFailsUnallocated ==
    SubnetExhausted =>
        /\ sn'.pc = "idle"
        /\ calls' = Append(calls, [factory |-> "_create_subnet", made |-> <<>>,
                                   fail |-> "Unable to allocate tenant network"])
        /\ body_failed'
        /\ pc' = "cleanups"
        /\ cleanups' = cleanups
        /\ cleanup_waits' = cleanup_waits
        /\ exists' = exists

\* C10: _create_subnet terminates; it visits each candidate block at most
\* once, and when the blocks run out it fails with 'Unable to allocate tenant
\* network' without registering a cleanup
C10_SubnetBounded ==
    /\ []SubnetVisitsOnce
    /\ [][SubnetFailsUnallocated]_vars
    /\ (sn.pc # "idle") ~> (sn.pc = "idle")

\* a pool of three or more blocks ran out, some in use, some rejected
C10_Witness ==
    /\ sn.pc = "idle"
    /\ calls # <<>>
    /\ Last(calls).fail = "Unable to allocate tenant network"
    /\ sn.i > sn.pool
    /\ sn.pool >= 3
    /\ Len(sn.lookups) = sn.pool
    /\ Len(sn.creates) >= 1
    /\ Len(sn.creates) < Len(sn.lookups)


\* a cleanup deleting the resource has been registered
HasDeleteEntry(id) ==
    \E k \in 1..Len(registered) :
        registered[k].id = id /\ EntryCall(registered[k]) \in DeleteOps

\* teardown has called a delete for the resource
DeleteIssued(id) ==
    \E j \in 1..Len(log) :
        log[j].src = "cleanup" /\ log[j].name \in DeleteOps /\ log[j].id = id

\* the resources of a factory call are scheduled for deletion, and deleted
\* once teardown is over
Scheduled(c) ==
    \A j \in 1..Len(c.made) :
        /\ HasDeleteEntry(c.made[j].id)
        /\ pc = "done" => DeleteIssued(c.made[j].id)

ValidatingFactories ==
    {"create_volume", "_create_network", "_create_subnet", "_create_router",
     "_create_empty_security_group", "_create_security_group", "_image_create"}

\* C6: when the validation of a factory fails after its create call, the
\* deletion of the created resource is registered and runs at teardown
C6_RegisteredBeforeValidation ==
    \A i \in 1..Len(calls) :
        (calls[i].factory \in ValidatingFactories /\ calls[i].fail = "validation")
            => Scheduled(calls[i])

WaitingFactories == {"create_volume", "create_server_snapshot", "create_container"}

\* C7: when the readiness wait or the post-creation check of a factory fails,
\* the deletion of the created resource is registered and runs at teardown
C7_RegisteredBeforePolling ==
    \A i \in 1..Len(calls) :
        (calls[i].factory \in WaitingFactories
         /\ calls[i].fail \in {"readiness", "postcheck"})
            => Scheduled(calls[i])

\* the wait queue's waiter was called for the resource
WaiterInvoked(id) ==
    \E j \in 1..Len(log) : log[j].src = "waitq" /\ log[j].id = id

\* C9: when the test body fails after factory calls that all succeeded,
\* teardown issues a delete for every resource they created and calls every
\* registered waiter
C9_FailedBodyStillCleans ==
    (pc = "done" /\ body_failed /\ \A i \in 1..Len(calls) : calls[i].fail = "none") =>
        /\ \A i \in 1..Len(calls) :
             \A j \in 1..Len(calls[i].made) : DeleteIssued(calls[i].made[j].id)
        /\ \A k \in 1..Len(wait_registered) : WaiterInvoked(wait_registered[k])

\* the last call of the test was a _create_subnet call, and it returned
SubnetReturned ==
    /\ sn.pc = "idle"
    /\ calls # <<>>
    /\ Last(calls).factory = "_create_subnet"
    /\ Last(calls).fail = "none"

\* C11: _create_subnet looks the candidate blocks up in pool order, calls
\* create_subnet for no block in use, and stops at the first create that
\* succeeds: with the first k blocks in use and block k+1 free the only create
\* call is for block k+1, and the subnet returned has that cidr
C11_SubnetFirstFree ==
    /\ sn.lookups = [j \in 1..Len(sn.lookups) |-> j]
    /\ Range(sn.creates) \cap Range(sn.used) = {}
    /\ \A k \in 1..Len(sn.answers) :
         sn.answers[k] = "ok" => /\ k = Len(sn.answers)
                                 /\ sn.creates[k] = Last(sn.lookups)
                                 /\ sn.result # 0
    /\ (sn.result # 0 /\ Len(sn.used) = Len(sn.lookups) - 1) =>
          sn.creates = <<Len(sn.used) + 1>>
    /\ SubnetReturned =>
          /\ Last(calls).made[1].id = sn.result
          /\ Last(calls).made[1].cidr = Last(sn.creates)
          /\ Last(sn.answers) = "ok"

C11_Witness ==
    /\ SubnetReturned
    /\ sn.pool > 4
    /\ sn.used = <<1, 2, 3>>
    /\ sn.creates = <<4>>
    /\ Last(calls).made[1].cidr = 4

\* the loop of _create_subnet moved on from the candidate block c
MovedOn(c) ==
    \/ c + 1 \in Range(sn.lookups)
    \/ sn.i = c + 1 /\ sn.pc = "loop"
    \/ /\ sn.i = c + 1
       /\ c = sn.pool
       /\ sn.pc = "idle"
       /\ Last(calls).fail = "Unable to allocate tenant network"

\* the Conflict of the create call for the candidate block c left _create_subnet
RaisedAt(c) ==
    /\ c = Last(sn.lookups)
    /\ sn.i = c
    /\ sn.pc = "idle"
    /\ Last(calls) = [factory |-> "_create_subnet", made |-> <<>>, fail |-> "Conflict"]
    /\ body_failed
    /\ pc # "body"

\* C12: in _create_subnet a Conflict saying the cidr overlaps makes the loop
\* go on with the next candidate block; any other Conflict is raised to the
\* caller at once and no further block is tried
C12_ConflictHandling ==
    \A k \in 1..Len(sn.answers) :
        /\ sn.answers[k] = "overlap" => MovedOn(sn.creates[k])
        /\ sn.answers[k] = "Conflict" => k = Len(sn.answers) /\ RaisedAt(sn.creates[k])

C12_Witness ==
    /\ sn.answers = <<"overlap", "Conflict">>
    /\ sn.creates = <<2, 3>>
    /\ sn.lookups = <<1, 2, 3>>
    /\ sn.pool > 3
    /\ pc = "done"

\* the rule loop moved on from attempt k
RulesMovedOn(k) ==
    \/ k < Len(sg.answers)
    \/ sg.j = k + 1 /\ sg.pc = "loop"
    \/ /\ sg.j = k + 1
       /\ k = Len(RuleAttempts)
       /\ sg.pc = "idle"
       /\ \E i \in 1..Len(calls) :
             /\ calls[i].factory = "_create_loginable_secgroup_rule"
             /\ calls[i].fail = "none"
             /\ calls[i].made = RulesMade(sg.rules)

\* C13: in the Neutron _create_loginable_secgroup_rule the Conflict 'Security
\* group rule already exists' skips the rule, which is not in the list
\* returned, and the loop goes on; any other Conflict is raised to the caller
\* and no further rule is created
C13_RuleConflicts ==
    \A k \in 1..Len(sg.answers) :
        /\ sg.answers[k] = "exists" =>
              /\ \A r \in 1..Len(sg.rules) : sg.rules[r].attempt # k
              /\ RulesMovedOn(k)
        /\ sg.answers[k] = "ok" => \E r \in 1..Len(sg.rules) : sg.rules[r].attempt = k
        /\ sg.answers[k] = "Conflict" =>
              /\ k = Len(sg.answers)
              /\ sg.j = k
              /\ sg.pc = "idle"
              /\ Last(calls).factory = "_create_loginable_secgroup_rule"
              /\ Last(calls).fail = "Conflict"
              /\ Len(Last(calls).made) = Len(sg.rules)
              /\ body_failed
              /\ pc # "body"

C13_Witness ==
    /\ sg.answers = <<"ok", "exists", "ok", "Conflict">>
    /\ Len(sg.rules) = 2
    /\ pc = "done"

\* C14: at the teardown of a test that made its resources through the
\* factories, every delete call is issued before any wait-for-deletion call
C14_DeletesBeforeWaits ==
    \A i, j \in 1..Len(log) :
        (i < j /\ log[i].name \in Waiters) => log[j].name \notin DeleteOps

\* the id of the resource of this kind a factory call made, 0 when none
MadeId(c, kind) ==
    IF \E j \in 1..Len(c.made) : c.made[j].kind = kind
    THEN (CHOOSE m \in Range(c.made) : m.kind = kind).id
    ELSE 0

\* where the delete of the resource was registered, and where it was called
RegisteredAt(id) ==
    CHOOSE k \in 1..Len(registered) :
        registered[k].id = id /\ EntryCall(registered[k]) \in DeleteOps

DeletedAt(id) ==
    CHOOSE j \in 1..Len(log) :
        log[j].src = "cleanup" /\ log[j].name \in DeleteOps /\ log[j].id = id

\* the delete of a is registered after the delete of b, and is called first
CleanedBefore(a, b) ==
    /\ HasDeleteEntry(a) /\ HasDeleteEntry(b)
    /\ RegisteredAt(a) > RegisteredAt(b)
    /\ DeleteIssued(b) => DeleteIssued(a) /\ DeletedAt(a) < DeletedAt(b)

\* C15: after create_networks made a network, a subnet and a tenant router,
\* the router's cleanup is registered after the subnet's and runs first: the
\* deletes are called for the router, then the subnet, then the network
C15_RouterSubnetNetwork ==
    \A i \in 1..Len(calls) :
        LET c == calls[i]
        IN (c.factory = "create_networks" /\ c.fail = "none" /\ MadeId(c, "router") # 0) =>
              /\ CleanedBefore(MadeId(c, "router"), MadeId(c, "subnet"))
              /\ CleanedBefore(MadeId(c, "subnet"), MadeId(c, "network"))

\* the factory call i made an outer resource and the later call j a resource
\* nested in it
Nested(i, outer, j, inner) ==
    /\ i < j
    /\ calls[i].factory = outer /\ calls[i].fail = "none"
    /\ calls[j].factory = inner /\ calls[j].fail = "none"

\* C16: cleanups of nested resources run inner first: the delete of a subnet
\* made by _create_subnet is called before the delete of the network made
\* before it by _create_network, and the delete of an uploaded object before
\* the delete of the container made before it
C16_InnerFirst ==
    \A i, j \in 1..Len(calls) :
        /\ Nested(i, "_create_network", j, "_create_subnet") =>
              CleanedBefore(MadeId(calls[j], "subnet"), MadeId(calls[i], "network"))
        /\ Nested(i, "create_container", j, "upload_object_to_container") =>
              CleanedBefore(MadeId(calls[j], "object"), MadeId(calls[i], "container"))

\* both nestings torn down: an object and its container, or a subnet and
\* its network, with both deletes called
C16_Witness ==
    /\ pc = "done"
    /\ Len(calls) >= 2
    /\ \/ Nested(1, "create_container", 2, "upload_object_to_container")
       \/ Nested(1, "_create_network", 2, "_create_subnet")
    /\ DeleteIssued(MadeId(calls[1], calls[1].made[1].kind))
    /\ DeleteIssued(MadeId(calls[2], calls[2].made[1].kind))

\* C17: a waiter that fails in _wait_for_cleanups is not swallowed: the
\* failure leaves _wait_for_cleanups and is among the errors of teardown,
\* and every cleanup entry of the test was run before the waiter was called
C17_WaiterFailureReported ==
    \A j \in 1..Len(log) :
        (log[j].src = "waitq" /\ log[j].res # "ok") =>
            /\ \E m \in 1..Len(errors) : errors[m] = Failure(DrainEntry, log[j].res)
            /\ \A j2 \in (j + 1)..Len(log) : log[j2].src # "waitq"
            /\ pc # "waits"
            /\ \A k \in 1..Len(registered) : InvokedBefore(registered[k], j)

C17_Witness ==
    /\ pc = "done"
    /\ Len(wait_registered) >= 2
    /\ \E k \in 1..Len(registered) : registered[k].fn = "callable"
    /\ \E j \in 1..Len(log) :
         /\ log[j].src = "waitq" /\ log[j].res = "Timeout" /\ log[j].id = wait_registered[2]
         /\ Failure(DrainEntry, "Timeout") \in Range(errors)

\* q is p with one more element at its end
OneMore(p, q) == Len(q) = Len(p) + 1 /\ SubSeq(q, 1, Len(p)) = p

\* what a call of addCleanup_with_wait for the resource id does
WithWaitFrame(id) ==
    /\ OneMore(cleanups, cleanups')
    /\ Last(cleanups') = Entry("delete_wrapper", "delete_thing", id)
    /\ OneMore(cleanup_waits, cleanup_waits')
    /\ Last(cleanup_waits')["waiter_callable"] \in Waiters
    /\ WaitId(PopWaiter(Last(cleanup_waits'))) = id
    /\ log' = log
    /\ dw' = dw
    /\ errors' = errors

\* C18: a call of addCleanup_with_wait appends one entry to the cleanup
\* registry and one to the wait queue, calls neither the cleanup nor the
\* waiter, and leaves the entries registered before as they were
C18_WithWaitFrame ==
    [][wait_registered' # wait_registered => WithWaitFrame(Last(wait_registered'))]_vars

C18_Witness ==
    /\ pc = "body"
    /\ Len(wait_registered) >= 2
    /\ Len(cleanup_waits) = Len(wait_registered)
    /\ Len(cleanups) >= 4
    /\ \E k \in 1..Len(cleanups) : cleanups[k].fn = "callable"
    /\ Last(cleanups).id = Last(wait_registered)
    /\ log = <<>>

\* positions of the log where the wait queue's waiter was called for id
WaitqCalls(id) == {j \in 1..Len(log) : log[j].src = "waitq" /\ log[j].id = id}

\* positions of the log where _wait_for_cleanups was entered
DrainCalls == {j \in 1..Len(log) : log[j].name = "_wait_for_cleanups"}

\* a waiter of the wait queue raised
WaitqRaised == \E j \in 1..Len(log) : log[j].src = "waitq" /\ log[j].res # "ok"

C20_QueuePerTest ==
    /\ pc = "body" => Len(cleanup_waits) = Len(wait_registered)
    /\ \A j \in 1..Len(log) : log[j].src = "waitq" => log[j].id \in Range(wait_registered)
    /\ \A m \in 1..Len(errors) : errors[m].kind # "KeyError"
    /\ pc = "done" =>
          /\ Cardinality(DrainCalls) = 1
          /\ ~WaitqRaised => WaitqIds = wait_registered

\* the second test of a run failed in its body and its two waiters were
\* called at teardown, after a first test that left entries in its queue
C20_Witness ==
    /\ test = 2
    /\ pc = "done"
    /\ body_failed
    /\ Len(wait_registered) = 2
    /\ wait_registered[1] > 1
    /\ WaitqIds = wait_registered

\* ------------------------------------ a test body that deletes what it made
\* the test body deletes a resource one of its factory calls made, with the
\* client call the factory registered for it
BodyDeleteMade ==
    /\ pc = "body"
    /\ direct < MaxDirect
    /\ \E k \in 1..Len(registered) :
         LET e == registered[k]
         IN /\ EntryCall(e) \in DeleteOps
            /\ e.id \in exists
            /\ exists' = exists \ {e.id}
            /\ log' = Append(log, Call(EntryCall(e), e.id, "body", NoKwargs, "ok"))
    /\ direct' = direct + 1
    /\ UNCHANGED <<pc, cleanups, cleanup_waits, wait_i, errors, body_failed, next_id,
                   registered, wait_registered, faults, dw, calls, sn, sg, test, poll>>

NextBodyDelete ==
    \/ SetUp
    \/ CreateKeypair
    \/ ImageCreate
    \/ CreateVolumeType
    \/ CreateContainer
    \/ BodyDeleteMade
    \/ EndBody
    \/ DoCleanups
    \/ WaitReturn
    \/ Finish

SpecBodyDelete == InitFactory /\ [][NextBodyDelete]_vars

\* the resource of this id was deleted by the test body
BodyDeleted(id) == \E j \in 1..Len(log) : log[j].src = "body" /\ log[j].id = id /\ log[j].name \in DeleteOps

\* C21: the deletion a factory registers goes through delete_wrapper, so the
\* NotFound that the delete of a resource the test body already deleted
\* raises at teardown is swallowed: teardown records no failure for it
C21_NotFoundSwallowed ==
    \A m \in 1..Len(errors) :
        ~(errors[m].kind = "NotFound" /\ BodyDeleted(errors[m].entry.id))

\* ------------------------------------------- connectivity / state polling
\* the number of polls that fit in the longest timeout
MaxPolls == 3

\* a Python boolean as the frame keeps it
Bool(b) == IF b THEN "True" ELSE "False"

\* error kinds a client, an ssh connection or a waiter can raise into a helper
PollErrors == {"NotFound", "SSHTimeout", "Error", "TimeoutException"}

\* the polling helpers, each a predicate handed to call_until_true
PollHelpers == {"ping_ip_address", "_check_remote_connectivity", "check_floating_ip_status",
                "_node_state_timeout", "wait_node"}

\* what one poll can observe: the return code of ping, the answer of
\* source.ping_host, the status after floating_ip.refresh(), the attribute
\* of the node show_node answers, the answer of show_node_by_instance_uuid
PollAnswers(helper, attr) ==
    CASE helper = "ping_ip_address" -> {"0", "1"}
      [] helper = "_check_remote_connectivity" -> {"ok", "SSHExecCommandFailed", "SSHTimeout"}
      [] helper = "check_floating_ip_status" -> {"ACTIVE", "DOWN", "NotFound"}
      [] helper = "_node_state_timeout" /\ attr = "power_state" -> {"power on", "power off", "NotFound"}
      [] helper = "_node_state_timeout" /\ attr = "provision_state" ->
             {"None", "wait call-back", "active", "deleting", "NotFound"}
      [] helper = "wait_node" -> {"node", "no_nodes", "NotFound", "Error"}

\* ping_ip_address.ping: (proc.returncode == 0) == should_succeed
ping(answer, should_succeed) == Bool((answer = "0") = should_succeed)

\* a ping_remote that reports whether the ping went through
ping_remote_Plain(answer, should_succeed) ==
    IF answer = "SSHExecCommandFailed" THEN "False"
    ELSE IF answer = "ok" THEN "True"
    ELSE answer

\* _check_remote_connectivity.ping_remote: a failed command is an answer,
\* anything else source.ping_host raises goes up
ping_remote(answer, should_succeed) ==
    IF answer = "SSHExecCommandFailed" THEN Bool(~should_succeed)
    ELSE IF answer = "ok" THEN Bool(should_succeed)
    ELSE answer

\* check_floating_ip_status.refresh: status == floating_ip.status after the
\* refresh; what refresh raises goes up
refresh(answer, status) == IF answer \in PollErrors THEN answer ELSE Bool(status = answer)

\* _node_state_timeout.check_state: node.get(state_attr) in target_states
check_state(answer, target_states) ==
    IF answer \in PollErrors THEN answer ELSE Bool(answer \in target_states)

\* wait_node._get_node: NotFound from get_node is passed over and the node
\* stays None; get_node answers None when body['nodes'] is empty
wait_node_get_node(answer) ==
    IF answer = "NotFound" THEN "False"
    ELSE IF answer \in PollErrors THEN answer
    ELSE Bool(answer = "node")

\* the predicate of the running helper applied to what the poll observed
Predicate(fr, answer) ==
    CASE fr.helper = "ping_ip_address" -> ping(answer, fr.should_succeed)
      [] fr.helper = "_check_remote_connectivity" -> ping_remote(answer, fr.should_succeed)
      [] fr.helper = "check_floating_ip_status" -> refresh(answer, fr.target)
      [] fr.helper = "_node_state_timeout" -> check_state(answer, fr.targets)
      [] fr.helper = "wait_node" -> wait_node_get_node(answer)

\* ping_ip_address and _check_remote_connectivity return what call_until_true
\* returned
connectivity_result(result) == result

\* a _node_state_timeout that reports the timeout to its caller
node_state_timeout_ReturnsFalse(result) == IF result = "False" THEN "False" ELSE "None"

\* _node_state_timeout after the polling: raise TimeoutException if not
\* call_until_true(...), else fall off the end
node_state_timeout(result) == IF result = "False" THEN "TimeoutException" ELSE "None"

\* wait_node after the polling, the same shape
wait_node(result) == IF result = "False" THEN "TimeoutException" ELSE "None"

\* a check_floating_ip_status without the assertion
check_floating_ip_status_Silent(status, floating_ip_status) == "None"

\* check_floating_ip_status after the polling: the result of call_until_true
\* is dropped and self.assertEqual(status, floating_ip.status) decides
check_floating_ip_status(status, floating_ip_status) ==
    IF status = floating_ip_status THEN "None" ELSE "AssertionError"

\* what the running helper does with the answer of call_until_true
HelperResult(fr) ==
    CASE fr.helper \in {"ping_ip_address", "_check_remote_connectivity"} -> connectivity_result(fr.cut)
      [] fr.helper = "check_floating_ip_status" -> check_floating_ip_status(fr.target, fr.status)
      [] fr.helper = "_node_state_timeout" -> node_state_timeout(fr.cut)
      [] fr.helper = "wait_node" -> wait_node(fr.cut)

\* results with which a helper returns; anything else is raised
Returns == {"True", "False", "None"}

\* calls of a bare-metal sequence that are made once, not polled
CallHelpers == {"get_node", "wait_for_server_status", "show_server"}

\* what such a call can answer: get_node answers None when no node is
\* associated; wait_for_server_status returns at ACTIVE or times out
CallAnswers(helper) ==
    CASE helper = "get_node" -> {"node", "no_nodes", "NotFound"}
      [] helper = "wait_for_server_status" -> {"ACTIVE", "TimeoutException"}
      [] helper = "show_server" -> {"server", "NotFound"}

\* the outcome of the call for the sequence: self.node['uuid'], used by the
\* next statement of boot_instance, fails on None
CallResult(fr, answer) ==
    IF answer \in PollErrors THEN answer
    ELSE IF fr.helper = "get_node" /\ fr.attr = "used" /\ answer = "no_nodes" THEN "TypeError"
    ELSE "None"

\* a boot_instance that waits for the deployment before the power state
boot_instance_Swapped == <<
    <<"wait_node", "none", {}>>,
    <<"get_node", "used", {}>>,
    <<"_node_state_timeout", "provision_state", {"wait call-back", "active"}>>,
    <<"_node_state_timeout", "power_state", {"power on"}>>,
    <<"_node_state_timeout", "provision_state", {"active"}>>,
    <<"wait_for_server_status", "status", {"ACTIVE"}>>,
    <<"get_node", "kept", {}>>,
    <<"show_server", "none", {}>> >>

\* boot_instance after create_server: <<helper, attribute, target states>>
boot_instance == <<
    <<"wait_node", "none", {}>>,
    <<"get_node", "used", {}>>,
    <<"_node_state_timeout", "power_state", {"power on"}>>,
    <<"_node_state_timeout", "provision_state", {"wait call-back", "active"}>>,
    <<"_node_state_timeout", "provision_state", {"active"}>>,
    <<"wait_for_server_status", "status", {"ACTIVE"}>>,
    <<"get_node", "kept", {}>>,
    <<"show_server", "none", {}>> >>

\* terminate_instance after delete_server
terminate_instance == <<
    <<"_node_state_timeout", "power_state", {"power off"}>>,
    <<"_node_state_timeout", "provision_state", {"None"}>> >>

SeqSteps(op) == IF op = "boot_instance" THEN boot_instance ELSE terminate_instance

\* the frame in which step k of the sequence starts
StepFrame(op, k, passed) ==
    LET st == SeqSteps(op)[k]
    IN [IdlePoll EXCEPT !.pc = IF st[1] \in CallHelpers THEN "call" ELSE "polling",
                        !.op = op, !.step = k, !.helper = st[1], !.attr = st[2],
                        !.targets = st[3], !.timeout = MaxPolls, !.passed = passed]

\* a step as the sequence remembers it: what it was and what it saw last
Passed(fr) == [helper |-> fr.helper, attr |-> fr.attr, saw |-> Last(fr.seen)]

\* the running helper ends with res: a helper called by the test body hands
\* its result to the body; in a sequence a raise ends the sequence and fails
\* the test body, a return starts the next step
Finished(fr, res) ==
    IF fr.op = "none" \/ res \notin Returns
    THEN /\ poll' = [fr EXCEPT !.pc = "done", !.result = res]
         /\ body_failed' = (res \notin Returns)
         /\ pc' = IF res \notin Returns THEN "cleanups" ELSE pc
    ELSE /\ poll' = IF fr.step = Len(SeqSteps(fr.op))
                    THEN [fr EXCEPT !.pc = "done", !.result = res,
                                    !.passed = Append(@, Passed(fr))]
                    ELSE StepFrame(fr.op, fr.step + 1, Append(fr.passed, Passed(fr)))
         /\ UNCHANGED <<pc, body_failed>>

\* the test body calls one of the polling helpers
PollStart ==
    /\ pc = "body"
    /\ poll.pc = "idle"
    /\ \E timeout \in 1..MaxPolls :
         \/ \E helper \in {"ping_ip_address", "_check_remote_connectivity"}, should_succeed \in BOOLEAN :
               poll' = [IdlePoll EXCEPT !.pc = "polling", !.helper = helper, !.timeout = timeout,
                                        !.should_succeed = should_succeed]
         \/ \E status \in {"ACTIVE", "DOWN"}, had \in {"ACTIVE", "DOWN"} :
               poll' = [IdlePoll EXCEPT !.pc = "polling", !.helper = "check_floating_ip_status",
                                        !.timeout = timeout, !.target = status, !.status = had]
         \/ \E k \in {3, 4, 5} :
               poll' = [StepFrame("boot_instance", k, <<>>) EXCEPT !.op = "none", !.step = 0,
                                                                    !.timeout = timeout]
         \/ \E k \in {1, 2} :
               poll' = [StepFrame("terminate_instance", k, <<>>) EXCEPT !.op = "none", !.step = 0,
                                                                         !.timeout = timeout]
         \/ poll' = [IdlePoll EXCEPT !.pc = "polling", !.helper = "wait_node", !.timeout = timeout]
    /\ UNCHANGED <<pc, cleanups, cleanup_waits, wait_i, log, errors, body_failed, exists, next_id,
                   registered, wait_registered, faults, direct, dw, calls, sn, sg, test>>

\* call_until_true calls the predicate while the time is not up; a True
\* ends the polling, a False sleeps for the interval, a raise goes up
PollStep ==
    /\ poll.pc = "polling"
    /\ poll.elapsed < poll.timeout
    /\ \E answer \in PollAnswers(poll.helper, poll.attr) :
         LET r == Predicate(poll, answer)
             fr == [poll EXCEPT !.seen = Append(@, answer),
                                !.status = IF poll.helper = "check_floating_ip_status"
                                              /\ answer \notin PollErrors
                                           THEN answer ELSE @]
         IN IF r = "True"
            THEN /\ poll' = [fr EXCEPT !.cut = "True", !.pc = "after"]
                 /\ UNCHANGED <<pc, body_failed>>
            ELSE IF r = "False"
            THEN /\ poll' = [fr EXCEPT !.elapsed = @ + 1]
                 /\ UNCHANGED <<pc, body_failed>>
            ELSE Finished(fr, r)
    /\ UNCHANGED <<cleanups, cleanup_waits, wait_i, log, errors, exists, next_id,
                   registered, wait_registered, faults, direct, dw, calls, sn, sg, test>>

\* the time is up: call_until_true returns False
PollTimeout ==
    /\ poll.pc = "polling"
    /\ poll.elapsed = poll.timeout
    /\ poll' = [poll EXCEPT !.cut = "False", !.pc = "after"]
    /\ UNCHANGED <<pc, cleanups, cleanup_waits, wait_i, log, errors, body_failed, exists, next_id,
                   registered, wait_registered, faults, direct, dw, calls, sn, sg, test>>

\* the helper goes on after call_until_true returned
PollReturn ==
    /\ poll.pc = "after"
    /\ Finished(poll, HelperResult(poll))
    /\ UNCHANGED <<cleanups, cleanup_waits, wait_i, log, errors, exists, next_id,
                   registered, wait_registered, faults, direct, dw, calls, sn, sg, test>>

NextPoll ==
    \/ SetUp
    \/ PollStart
    \/ PollStep
    \/ PollTimeout
    \/ PollReturn

SpecPoll == Init /\ [][NextPoll]_vars

\* ------------------------------------------------ the polling helpers hold
\* a helper called by the test body has ended
HelperDone(helpers) == poll.pc = "done" /\ poll.op = "none" /\ poll.helper \in helpers

\* the ping of poll k went through or did not, and that is what the caller
\* expected
PingAsExpected(k) ==
    \/ poll.seen[k] \in {"0", "ok"} /\ poll.should_succeed
    \/ poll.seen[k] \in {"1", "SSHExecCommandFailed"} /\ ~poll.should_succeed

\* C22: ping_ip_address and _check_remote_connectivity return True when a
\* poll within the timeout observed the expected outcome (the ping result
\* equals should_succeed), return False when the timeout elapsed without
\* it, and raise nothing because of the timeout: what they raise is what
\* the last ping raised
C22_ConnectivityBoolean ==
    HelperDone({"ping_ip_address", "_check_remote_connectivity"}) =>
        LET hit == \E k \in 1..Len(poll.seen) : PingAsExpected(k)
        IN /\ hit <=> poll.result = "True"
           /\ poll.result = "True" => PingAsExpected(Len(poll.seen))
           /\ poll.result = "False" <=> (~hit /\ poll.elapsed = poll.timeout)
           /\ poll.result = "False" => Len(poll.seen) = poll.timeout
           /\ poll.result \notin {"True", "False"} =>
                 /\ poll.elapsed < poll.timeout
                 /\ poll.result = Last(poll.seen)
                 /\ poll.result = "SSHTimeout"

\* _check_remote_connectivity with should_succeed false returned True at
\* its second poll, when the ping failed after one that went through
C22_Witness ==
    /\ HelperDone({"_check_remote_connectivity"})
    /\ ~poll.should_succeed
    /\ poll.result = "True"
    /\ poll.seen = <<"ok", "SSHExecCommandFailed">>

\* the poll k saw what the helper waits for
Converged(k) ==
    IF poll.helper = "wait_node" THEN poll.seen[k] = "node" ELSE poll.seen[k] \in poll.targets

\* C23: _node_state_timeout (behind wait_power_state and
\* wait_provisioning_state) and wait_node return only when a poll observed
\* the attribute in the target states, resp. a node of the instance, and
\* raise TimeoutException when the timeout elapsed without it; they never
\* return False
C23_ConvergeOrTimeout ==
    HelperDone({"_node_state_timeout", "wait_node"}) =>
        /\ poll.result \in {"None", "TimeoutException", "NotFound", "Error"}
        /\ poll.result = "None" => poll.seen # <<>> /\ Converged(Len(poll.seen))
        /\ poll.result = "TimeoutException" <=>
              /\ Len(poll.seen) = poll.timeout
              /\ \A k \in 1..Len(poll.seen) : ~Converged(k) /\ Predicate(poll, poll.seen[k]) = "False"
        /\ poll.result \in {"NotFound", "Error"} => Last(poll.seen) = poll.result

\* wait_provisioning_state for DEPLOYWAIT or ACTIVE timed out on a node that
\* stayed in another state for all the polls
C23_Witness ==
    /\ HelperDone({"_node_state_timeout"})
    /\ poll.targets = {"wait call-back", "active"}
    /\ poll.result = "TimeoutException"
    /\ Len(poll.seen) = MaxPolls

\* C25: check_floating_ip_status returns if and only if the status of the
\* floating IP, as last refreshed, is the target status when the polling
\* ends; when the build timeout elapsed without it, it raises
\* AssertionError
C25_FloatingIpStatus ==
    HelperDone({"check_floating_ip_status"}) =>
        /\ poll.result \in {"None", "AssertionError", "NotFound"}
        /\ poll.result = "NotFound" <=> (poll.seen # <<>> /\ Last(poll.seen) = "NotFound")
        /\ poll.result # "NotFound" =>
              /\ poll.status = Last(poll.seen)
              /\ poll.result = "None" <=> poll.status = poll.target
              /\ poll.result = "AssertionError" <=>
                    /\ Len(poll.seen) = poll.timeout
                    /\ \A k \in 1..Len(poll.seen) : poll.seen[k] # poll.target

\* the floating IP stayed DOWN for all the polls of a check for ACTIVE
C25_Witness ==
    /\ HelperDone({"check_floating_ip_status"})
    /\ poll.target = "ACTIVE"
    /\ poll.result = "AssertionError"
    /\ poll.seen = <<"DOWN", "DOWN">>

\* C27: a NotFound that a client call raises outside delete_wrapper goes up
\* to the caller: a helper whose poll got NotFound raises NotFound
C27_NotFoundPropagates ==
    HelperDone(PollHelpers) =>
        ("NotFound" \in Range(poll.seen) => poll.result = "NotFound")

\* ------------------------------------------- servers and their snapshots
\* a test that boots servers and snapshots them, the two factories that
\* register a wait
NextWaits ==
    \/ SetUp
    \/ CreateServer
    \/ CreateServerSnapshot
    \/ EndBody
    \/ Teardown

SpecWaits == InitFactory /\ [][NextWaits]_vars

\* the kind of the resource a factory made under this id
KindOf(id) ==
    LET c == CHOOSE c \in Range(calls) : \E m \in Range(c.made) : m.id = id
    IN (CHOOSE m \in Range(c.made) : m.id = id).kind

\* thing_id_param and waiter_client as the factories hand them to
\* addCleanup_with_wait: create_server waits for a server with server_id and
\* the servers client, create_server_snapshot for an image with id and no client
RegisteredParam(id) == IF KindOf(id) = "server" THEN "server_id" ELSE "id"

RegisteredClient(id) == IF KindOf(id) = "server" THEN "servers_client" ELSE "None"

\* the keyword arguments a waiter is due: thing_id_param bound to thing_id,
\* and client bound to the waiter_client when one was given
DueKwargs(id) ==
    [k \in {RegisteredParam(id)} \cup (IF RegisteredClient(id) # "None" THEN {"client"} ELSE {}) |->
        IF k = "client" /\ RegisteredClient(id) # "None" THEN RegisteredClient(id) ELSE id]

\* how many waiters of the wait queue were called up to position j of the log
WaitqCount(j) == Cardinality({i \in 1..j : log[i].src = "waitq"})

\* C24: at teardown the waiter of each wait entry is called with exactly the
\* keyword thing_id_param bound to thing_id, plus client bound to the
\* waiter_client if and only if one was given at registration;
\* 'waiter_callable' is not among the keywords
C24_WaiterKwargs ==
    \A j \in 1..Len(log) :
        log[j].src = "waitq" =>
            /\ WaitqCount(j) <= Len(wait_registered)
            /\ log[j].kwargs = DueKwargs(wait_registered[WaitqCount(j)])
            /\ "waiter_callable" \notin DOMAIN log[j].kwargs
            /\ "client" \in DOMAIN log[j].kwargs <=>
                  RegisteredClient(wait_registered[WaitqCount(j)]) # "None"

\* teardown called the waiter of a server with server_id and client, and
\* then the waiter of its snapshot image with id alone
C24_Witness ==
    /\ pc = "done"
    /\ Len(wait_registered) = 2
    /\ \E i, j \in 1..Len(log) :
          /\ i < j
          /\ log[i].src = "waitq" /\ DOMAIN log[i].kwargs = {"server_id", "client"}
          /\ log[j].src = "waitq" /\ DOMAIN log[j].kwargs = {"id"}

\* ------------------------------------------------ bare-metal boot and end
\* boot_instance: create_server with its defaults, then the waits
BootInstance ==
    /\ pc = "body"
    /\ poll.pc = "idle"
    /\ Len(calls) < MaxCalls
    /\ \E ports \in BOOLEAN :
         LET steps == create_server(ports, TRUE)
         IN \E f \in FailPoints(steps) \cup {0} :
              LET fr == Exec(steps, IF f = 0 THEN Len(steps) ELSE f - 1, Frame)
              IN /\ cleanups' = fr.cleanups
                 /\ cleanup_waits' = fr.cleanup_waits
                 /\ registered' = fr.registered
                 /\ wait_registered' = fr.wait_registered
                 /\ exists' = fr.exists
                 /\ next_id' = fr.next_id
                 /\ calls' = Append(calls, [factory |-> "create_server", made |-> fr.made,
                                            fail |-> IF f = 0 THEN "none"
                                                     ELSE IF steps[f][1] = "create" THEN "create"
                                                     ELSE steps[f][2]])
                 /\ body_failed' = (f # 0)
                 /\ pc' = IF f # 0 THEN "cleanups" ELSE "body"
                 /\ poll' = IF f # 0
                            THEN [IdlePoll EXCEPT !.pc = "done", !.op = "boot_instance",
                                                  !.result = "Error"]
                            ELSE StepFrame("boot_instance", 1, <<>>)
    /\ UNCHANGED <<wait_i, log, errors, faults, direct, dw, sn, sg, test>>

\* a call of the sequence that is made once
CallStep ==
    /\ poll.pc = "call"
    /\ \E answer \in CallAnswers(poll.helper) :
         Finished([poll EXCEPT !.seen = Append(@, answer)], CallResult(poll, answer))
    /\ UNCHANGED <<cleanups, cleanup_waits, wait_i, log, errors, exists, next_id,
                   registered, wait_registered, faults, direct, dw, calls, sn, sg, test>>

\* the server boot_instance made
Instance == MadeId(calls[Len(calls)], "server")

\* terminate_instance: delete_server, then the waits
TerminateInstance ==
    /\ pc = "body"
    /\ poll.op = "boot_instance"
    /\ poll.pc = "done"
    /\ poll.result = "None"
    /\ \E outcome \in Outcomes("delete_server", Instance) :
         /\ log' = Append(log, Call("delete_server", Instance, "body", NoKwargs, outcome))
         /\ exists' = ExistsAfter("delete_server", Instance, outcome)
         /\ faults' = FaultsAfter(outcome)
         /\ IF outcome = "ok"
            THEN /\ poll' = StepFrame("terminate_instance", 1, <<>>)
                 /\ UNCHANGED <<pc, body_failed>>
            ELSE /\ poll' = [IdlePoll EXCEPT !.pc = "done", !.op = "terminate_instance",
                                             !.result = outcome]
                 /\ pc' = "cleanups"
                 /\ body_failed' = TRUE
    /\ UNCHANGED <<cleanups, cleanup_waits, wait_i, errors, next_id, registered,
                   wait_registered, direct, dw, calls, sn, sg, test>>

NextBaremetal ==
    \/ SetUp
    \/ BootInstance
    \/ PollStep
    \/ PollTimeout
    \/ PollReturn
    \/ CallStep
    \/ TerminateInstance

SpecBaremetal == InitFactory /\ [][NextBaremetal]_vars

\* what boot_instance has to observe, in this order: a node of the
\* instance, POWER_ON, DEPLOYWAIT or ACTIVE, ACTIVE, the server ACTIVE
BootOrder ==
    << [attr |-> "none", states |-> {"node"}],
       [attr |-> "power_state", states |-> {"power on"}],
       [attr |-> "provision_state", states |-> {"wait call-back", "active"}],
       [attr |-> "provision_state", states |-> {"active"}],
       [attr |-> "status", states |-> {"ACTIVE"}] >>

\* what terminate_instance has to observe: POWER_OFF, then NOSTATE
TerminateOrder ==
    << [attr |-> "power_state", states |-> {"power off"}],
       [attr |-> "provision_state", states |-> {"None"}] >>

\* a step in which the sequence waited for a state
IsWait(p) == p.helper \in {"wait_node", "_node_state_timeout", "wait_for_server_status"}

\* the waits passed so far are the first ones of the order, each ended on a
\* state it waits for
InOrder(order) ==
    LET waits == SelectSeq(poll.passed, IsWait)
    IN /\ Len(waits) <= Len(order)
       /\ \A k \in 1..Len(waits) :
             /\ waits[k].attr = order[k].attr
             /\ waits[k].saw \in order[k].states

\* C26: boot_instance returns only after it observed, in this order, a node
\* of the instance, POWER_ON, DEPLOYWAIT or ACTIVE, ACTIVE and the server
\* ACTIVE; terminate_instance issues delete_server first and returns only
\* after POWER_OFF and then NOSTATE; a step that does not converge ends the
\* sequence with a timeout error and no later step is tried
C26_BareMetalOrder ==
    /\ poll.op = "boot_instance" =>
          /\ InOrder(BootOrder)
          /\ (poll.pc = "done" /\ poll.result = "None") =>
                Len(SelectSeq(poll.passed, IsWait)) = Len(BootOrder)
    /\ poll.op = "terminate_instance" =>
          /\ InOrder(TerminateOrder)
          /\ log # <<>> /\ Last(log) = Call("delete_server", Instance, "body", NoKwargs,
                                            IF poll.step = 0 THEN poll.result ELSE "ok")
          /\ (poll.pc = "done" /\ poll.result = "None") =>
                Len(SelectSeq(poll.passed, IsWait)) = Len(TerminateOrder)
    /\ (poll.op # "none" /\ poll.pc = "done" /\ poll.result \notin Returns) =>
          /\ pc = "cleanups" /\ body_failed
          /\ Len(poll.passed) = (IF poll.step = 0 THEN 0 ELSE poll.step - 1)
          /\ (poll.helper \in PollHelpers /\ poll.elapsed = poll.timeout) =>
                poll.result = "TimeoutException"
    /\ (poll.op # "none" /\ poll.pc # "done") => Len(poll.passed) = poll.step - 1

\* terminate_instance returned after a boot_instance whose node went through
\* DEPLOYWAIT
C26_Witness ==
    /\ poll.op = "terminate_instance"
    /\ poll.pc = "done"
    /\ poll.result = "None"
    /\ Len(poll.passed) = 2
    /\ Instance \notin exists

\* ------------------------------------------------------------ _get_router
\* _get_router under a configuration: router_id and network_id tell whether
\* CONF.network.public_router_id and public_network_id are set; with neither
\* it raises before any call
GetRouter ==
    /\ pc = "body"
    /\ Len(calls) < MaxCalls
    /\ \E router_id, network_id \in BOOLEAN :
         IF router_id \/ network_id
         THEN LET steps == get_router(router_id)
              IN \E f \in FailPoints(steps) \cup {0} :
                   LET fr == Exec(steps, IF f = 0 THEN Len(steps) ELSE f - 1, Frame)
                   IN /\ cleanups' = fr.cleanups
                      /\ registered' = fr.registered
                      /\ exists' = fr.exists
                      /\ next_id' = fr.next_id
                      /\ calls' = Append(calls, [factory |-> "_get_router", made |-> fr.made,
                                                 fail |-> IF f = 0 THEN "none"
                                                          ELSE IF steps[f][1] = "create" THEN "create"
                                                          ELSE steps[f][2],
                                                 conf |-> <<router_id, network_id>>])
                      /\ body_failed' = (f # 0)
                      /\ pc' = IF f # 0 THEN "cleanups" ELSE "body"
         ELSE /\ calls' = Append(calls, [factory |-> "_get_router", made |-> <<>>,
                                         fail |-> "Exception",
                                         conf |-> <<router_id, network_id>>])
              /\ body_failed' = TRUE
              /\ pc' = "cleanups"
              /\ UNCHANGED <<cleanups, registered, exists, next_id>>
    /\ UNCHANGED <<cleanup_waits, wait_registered, wait_i, log, errors, faults, direct, dw,
                   sn, sg, test, poll>>

\* a network test that asks for its router
NextRouter ==
    \/ SetUp
    \/ GetRouter
    \/ CreateNetwork
    \/ EndBody
    \/ DoCleanups
    \/ WaitReturn
    \/ Finish

SpecRouter == InitFactory /\ [][NextRouter]_vars

\* the step is a call of _get_router
GetRouterCalled == Len(calls') = Len(calls) + 1 /\ Last(calls').factory = "_get_router"

\* the step leaves the remote resources and the registry as they were
NothingMade ==
    /\ Last(calls').made = <<>>
    /\ exists' = exists
    /\ registered' = registered
    /\ cleanups' = cleanups

\* C28: _get_router with a public router id configured returns that router
\* and neither creates nor registers anything; else, with a public network
\* id configured, it creates a tenant router, registers its deletion and
\* then sets its gateway; with neither configured it raises and creates
\* nothing
C28_RouterPrecedence ==
    [][GetRouterCalled =>
          LET c == Last(calls')
          IN IF c.conf[1]
             THEN NothingMade /\ c.fail \in {"none", "call"}
             ELSE IF c.conf[2]
             THEN /\ c.fail = "create" => NothingMade
                  /\ c.fail # "create" =>
                        /\ c.made = <<[kind |-> "router", id |-> next_id]>>
                        /\ exists' = exists \cup {next_id}
                  /\ c.fail \in {"none", "call"} =>
                        /\ registered' = Append(registered, Entry("delete_wrapper", "router.delete", next_id))
                        /\ cleanups' = Append(cleanups, Entry("delete_wrapper", "router.delete", next_id))
                  /\ c.fail \in {"none", "call", "create", "validation"}
             ELSE /\ NothingMade
                  /\ c.fail = "Exception"
                  /\ pc' = "cleanups" /\ body_failed']_vars

\* with only the public network configured, set_gateway raised on a tenant
\* router whose delete was registered; and an earlier call with the public
\* router configured left nothing behind
C28_Witness ==
    /\ Len(calls) = 2
    /\ calls[1].factory = "_get_router" /\ calls[1].conf[1] /\ calls[1].fail = "none"
    /\ calls[2].factory = "_get_router" /\ calls[2].conf = <<FALSE, TRUE>>
    /\ calls[2].fail = "call"
    /\ registered = <<DrainEntry, Entry("delete_wrapper", "router.delete", 1)>>
    /\ exists = {1}

\* positions of the log where teardown called name for the resource id from src
CallsOf(name, id, src) == {j \in 1..Len(log) : log[j].name = name /\ log[j].id = id /\ log[j].src = src}

\* the delete of the server was issued before position j of the log
ServerDeleteBefore(s, j) == \E i \in CallsOf("delete_server", s, "cleanup") : i < j

\* the factory calls that made a server
ServerCalls == {i \in 1..Len(calls) : calls[i].factory = "create_server" /\ MadeId(calls[i], "server") # 0}

\* create_server registered the termination wait of the server as a cleanup
\* of its own, as it does with wait_on_delete
WaitOnDelete(s) == Entry("wait_for_server_termination", "none", s) \in Range(registered)

\* a waiter of the wait queue raised before the entry of the resource was reached
DrainStoppedBefore(id) ==
    \E j \in 1..Len(log) : log[j].src = "waitq" /\ log[j].res # "ok" /\ log[j].id # id

C30_DrainStopsAtFirstFailure ==
    \A j \in 1..Len(log) :
        (log[j].src = "waitq" /\ log[j].res # "ok") =>
            LET i == WaitqCount(j)
            IN /\ i <= Len(wait_registered)
               /\ log[j].id = wait_registered[i]
               /\ WaitqIds = SubSeq(wait_registered, 1, i)
               /\ \A k \in (i + 1)..Len(wait_registered) :
                     CallsOf(log[j].name, wait_registered[k], "waitq") = {}
                     /\ ~WaiterInvoked(wait_registered[k])
               /\ Cardinality({m \in 1..Len(errors) : errors[m].entry = DrainEntry}) = 1

\* teardown is over: the waiter of the first of two wait entries timed out
\* and the waiter of the second was not called from the wait queue
C30_Witness ==
    /\ pc = "done"
    /\ Len(wait_registered) = 2
    /\ CallsOf("wait_for_server_termination", wait_registered[1], "waitq") # {}
    /\ \E j \in 1..Len(log) :
          log[j].src = "waitq" /\ log[j].id = wait_registered[1] /\ log[j].res = "Timeout"
    /\ ~WaiterInvoked(wait_registered[2])
    /\ KindOf(wait_registered[2]) = "image"

=============================================================================
